---- MODULE Spec2Model ----
(***************************************************************************)
(* Predictive leader-placement controller (predict_leader.py) with its     *)
(* decision log (leader_logger.py): the control loop, the migration        *)
(* executor, the forecaster holder and the hot-reload worker; and the      *)
(* quorum cost model of moveleader.py.                                     *)
(*                                                                         *)
(* Five specifications share the variables:                                *)
(*   Spec        the control loop main(): ticks, decision log, executor    *)
(*   FairSpec    Spec with weak fairness of the control loop's steps       *)
(*   SpecReload  the ReloadWorker thread, the artifact files, the clock    *)
(*               and the control loop reduced to its ForecasterHolder.get  *)
(*   SpecExec    check_and_transfer_leader called with any two addresses   *)
(*   SpecCost    the cost models of predict_leader.py and of moveleader.py *)
(*               applied to lists of replicas                              *)
(***************************************************************************)
EXTENDS Integers, Sequences, FiniteSets, TLC

(***************************************************************************)
(* Bounds of the model.                                                    *)
(***************************************************************************)
\* ticks of the control loop that are explored
MaxTicks == 3
\* largest iteration cap MAX_ITERS that is configured
MaxItersCfg == 2
\* failed constructions of the first forecaster that are explored
MaxInitRetries == 1
\* largest mean read / write rate of a forecast column
MaxLoad == 1
\* the wall clock of the reload worker advances by TimeStep up to MaxTime
TimeStep == 1
MaxTime == 46
\* largest artifact signature (signatures are 0..MaxSig)
MaxSig == 2
\* changes of the artifact files that are explored
MaxSigChanges == 2
\* largest voting weight (Domain.nodes) of a replica given to a cost model
MaxWeight == 2

(***************************************************************************)
(* Program constants.                                                      *)
(***************************************************************************)
INTERVAL_SEC == 15
SLEEP_SEC == 0
INIT_BACKOFF_SEC == 30
\* main, line 437: ReloadWorker(interval_sec=15, debounce_sec=5)
interval_sec == 15
debounce_sec == 5
UNKNOWN_LATENCY == 999

\* Python's None for an address, and the .get(..., "unknown") defaults
NONE == "None"
UNKNOWN == "unknown"

(***************************************************************************)
(* OptimalLeaderCalculator.__init__: the static tables.                    *)
(***************************************************************************)
ip_to_index ==
    [ip \in {"192.168.0.38", "192.168.0.82", "192.168.0.223"} |->
        CASE ip = "192.168.0.38" -> 0
          [] ip = "192.168.0.82" -> 1
          [] ip = "192.168.0.223" -> 2]

latency_matrix ==
    << <<0, 30, 40>>,
       <<30, 0, 50>>,
       <<40, 50, 0>> >>

IpToId ==
    [ep \in {"192.168.0.38:2379", "192.168.0.38:3379", "192.168.0.38:4379",
             "192.168.0.82:2379", "192.168.0.82:3379", "192.168.0.82:4379",
             "192.168.0.223:2379", "192.168.0.223:3379", "192.168.0.223:4379"} |->
        CASE ep = "192.168.0.38:2379" -> "933ca51d2bb602b8"
          [] ep = "192.168.0.38:3379" -> "6181f76d6668aeb0"
          [] ep = "192.168.0.38:4379" -> "69948e3d245f62b7"
          [] ep = "192.168.0.82:2379" -> "b92b49a4de72942d"
          [] ep = "192.168.0.82:3379" -> "3cdaf029c87a002"
          [] ep = "192.168.0.82:4379" -> "5b3ba363fb10d52f"
          [] ep = "192.168.0.223:2379" -> "69f554c3f7f50a72"
          [] ep = "192.168.0.223:3379" -> "8861d1f6a0217629"
          [] ep = "192.168.0.223:4379" -> "512e070e8eb32959"]

node_id_to_ip ==
    [id \in {"933ca51d2bb602b8", "6181f76d6668aeb0", "69948e3d245f62b7",
             "b92b49a4de72942d", "3cdaf029c87a002", "5b3ba363fb10d52f",
             "69f554c3f7f50a72", "8861d1f6a0217629", "512e070e8eb32959"} |->
        CASE id \in {"933ca51d2bb602b8", "6181f76d6668aeb0", "69948e3d245f62b7"}
                -> "192.168.0.38"
          [] id \in {"b92b49a4de72942d", "3cdaf029c87a002", "5b3ba363fb10d52f"}
                -> "192.168.0.82"
          [] id \in {"69f554c3f7f50a72", "8861d1f6a0217629", "512e070e8eb32959"}
                -> "192.168.0.223"]

\* the node ids in the order Python's sorted() gives to these strings
NodeIdOrder ==
    << "3cdaf029c87a002", "512e070e8eb32959", "5b3ba363fb10d52f",
       "6181f76d6668aeb0", "69948e3d245f62b7", "69f554c3f7f50a72",
       "8861d1f6a0217629", "933ca51d2bb602b8", "b92b49a4de72942d",
       "ffffffffffffffff" >>

\* sorted(node_ids)
SortedIds(ids) == SelectSeq(NodeIdOrder, LAMBDA n : n \in ids)

(***************************************************************************)
(* Forecasts.  A forecast DataFrame is represented by its `empty` flag     *)
(* and its column means: mean[n] = <<mean of n_read, mean of n_write>>.    *)
(* The columns are those of the three trained nodes of forecaster.py (one  *)
(* per address), of a second node of 192.168.0.38, and of a node id the    *)
(* identity map lacks.                                                     *)
(***************************************************************************)
TrainedNodes == {"933ca51d2bb602b8", "b92b49a4de72942d", "69f554c3f7f50a72"}
ExtraNodes == {"6181f76d6668aeb0", "ffffffffffffffff"}
PredNodes == TrainedNodes \cup ExtraNodes

\* <<mean read, mean write>> of a trained node: reads only, or one write
LoadPairs == {<<r, 0>> : r \in 0..MaxLoad} \cup {<<0, 1>>}
\* <<mean read, mean write>> of an extra node: idle, or the largest read
ExtraPairs == {<<0, 0>>, <<MaxLoad, 0>>}

EmptyForecast == [empty |-> TRUE, mean |-> [n \in PredNodes |-> <<0, 0>>]]

Forecasts ==
    {EmptyForecast}
    \cup {[empty |-> FALSE,
           mean |-> [n \in PredNodes |->
                       IF n \in TrainedNodes THEN a[n] ELSE b[n]]] :
            a \in [TrainedNodes -> LoadPairs], b \in [ExtraNodes -> ExtraPairs]}

\* Domain(domain_id, address, nodes, read_requests, write_requests)
Domain(domain_id, address, nodes, read_requests, write_requests) ==
    [id |-> domain_id, address |-> address, nodes |-> nodes,
     read_requests |-> read_requests, write_requests |-> write_requests]

\* the value standing for Python's None where a Domain is expected
NoDomain == Domain(NONE, NONE, 0, 0, 0)

\* BuildDomains that skips a node when either of its means is zero
RECURSIVE BuildDomains_SkipAnyZero(_, _)
BuildDomains_SkipAnyZero(ids, mean) ==
    IF ids = << >> THEN << >>
    ELSE LET node_id == Head(ids)
             read_val == mean[node_id][1]
             write_val == mean[node_id][2]
             ip_addr == IF node_id \in DOMAIN node_id_to_ip
                        THEN node_id_to_ip[node_id] ELSE UNKNOWN
             rest == BuildDomains_SkipAnyZero(Tail(ids), mean)
         IN  IF write_val = 0 \/ read_val = 0 THEN rest
             ELSE IF ip_addr = UNKNOWN THEN rest
             ELSE <<Domain(node_id, ip_addr, 1, read_val, write_val)>> \o rest

\* the loop of lines 215-232 over the sorted node ids
RECURSIVE BuildDomains(_, _)
BuildDomains(ids, mean) ==
    IF ids = << >> THEN << >>
    ELSE LET node_id == Head(ids)
             read_val == mean[node_id][1]
             write_val == mean[node_id][2]
             ip_addr == IF node_id \in DOMAIN node_id_to_ip
                        THEN node_id_to_ip[node_id] ELSE UNKNOWN
             rest == BuildDomains(Tail(ids), mean)
         IN  IF write_val = 0 /\ read_val = 0 THEN rest
             ELSE IF ip_addr = UNKNOWN THEN rest
             ELSE <<Domain(node_id, ip_addr, 1, read_val, write_val)>> \o rest

\* OptimalLeaderCalculator.build_domains_from_pred_mean
build_domains_from_pred_mean(pred_df) ==
    IF pred_df.empty THEN << >>
    ELSE BuildDomains(SortedIds(DOMAIN pred_df.mean), pred_df.mean)

\* get_latency that looks up only the source address
get_latency_SourceOnly(from_ip, to_ip) ==
    IF from_ip \notin DOMAIN ip_to_index THEN UNKNOWN_LATENCY
    ELSE IF to_ip \notin DOMAIN ip_to_index THEN 0
    ELSE latency_matrix[ip_to_index[from_ip] + 1][ip_to_index[from_ip] + 1]

\* OptimalLeaderCalculator.get_latency
get_latency(from_ip, to_ip) ==
    IF from_ip \notin DOMAIN ip_to_index \/ to_ip \notin DOMAIN ip_to_index
    THEN UNKNOWN_LATENCY
    ELSE latency_matrix[ip_to_index[from_ip] + 1][ip_to_index[to_ip] + 1]

RECURSIVE SumLatency(_, _, _)
SumLatency(leader_domain, domains, i) ==
    IF i > Len(domains) THEN 0
    ELSE LET domain == domains[i]
             latency == IF domain.id = leader_domain.id THEN 0
                        ELSE get_latency(leader_domain.address, domain.address)
             total_req == domain.read_requests + domain.write_requests
         IN  total_req * latency + SumLatency(leader_domain, domains, i + 1)

\* OptimalLeaderCalculator.calculate_total_latency (predict_leader.py)
calculate_total_latency(leader_domain, domains) ==
    SumLatency(leader_domain, domains, 1)

\* the loop of find_optimal_leader with "cost <= best_cost": among equal
\* costs the last candidate wins
RECURSIVE BestFrom_LastWins(_, _, _, _)
BestFrom_LastWins(domains, i, best, best_cost) ==
    IF i > Len(domains) THEN <<best, best_cost>>
    ELSE LET cand == domains[i]
             cost == calculate_total_latency(cand, domains)
         IN  IF best = NoDomain \/ cost <= best_cost
             THEN BestFrom_LastWins(domains, i + 1, cand, cost)
             ELSE BestFrom_LastWins(domains, i + 1, best, best_cost)

\* the loop of lines 261-267 from candidate i on
RECURSIVE BestFrom(_, _, _, _)
BestFrom(domains, i, best, best_cost) ==
    IF i > Len(domains) THEN <<best, best_cost>>
    ELSE LET cand == domains[i]
             cost == calculate_total_latency(cand, domains)
         IN  IF best = NoDomain \/ cost < best_cost
             THEN BestFrom(domains, i + 1, cand, cost)
             ELSE BestFrom(domains, i + 1, best, best_cost)

\* OptimalLeaderCalculator.find_optimal_leader (predict_leader.py); the
\* initial best_cost float("inf") is the case best = NoDomain
find_optimal_leader(domains) ==
    IF domains = << >> THEN <<NoDomain, 0>>
    ELSE BestFrom(domains, 1, NoDomain, 0)

\* run_once_and_decide that names the first known replica as the leader
\* when no Domain was built
run_once_and_decide_DefaultTarget(pred_df, ip) ==
    IF pred_df.empty THEN <<TRUE, NONE>>
    ELSE LET domains == build_domains_from_pred_mean(pred_df)
             first == node_id_to_ip[NodeIdOrder[1]]
         IN  IF domains = << >> THEN <<first = ip, first>>
             ELSE LET optimal == find_optimal_leader(domains)[1]
                  IN  IF optimal = NoDomain THEN <<TRUE, NONE>>
                      ELSE <<optimal.address = ip, optimal.address>>

\* run_once_and_decide with the comparison of line 402 inverted
run_once_and_decide_InvertedSelf(pred_df, ip) ==
    IF pred_df.empty THEN <<TRUE, NONE>>
    ELSE LET domains == build_domains_from_pred_mean(pred_df)
         IN  IF domains = << >> THEN <<TRUE, NONE>>
             ELSE LET optimal == find_optimal_leader(domains)[1]
                  IN  IF optimal = NoDomain THEN <<TRUE, NONE>>
                      ELSE <<optimal.address # ip, optimal.address>>

\* run_once_and_decide: <<is_self, optimal_ip>>
run_once_and_decide(pred_df, ip) ==
    IF pred_df.empty THEN <<TRUE, NONE>>
    ELSE LET domains == build_domains_from_pred_mean(pred_df)
         IN  IF domains = << >> THEN <<TRUE, NONE>>
             ELSE LET optimal == find_optimal_leader(domains)[1]
                  IN  IF optimal = NoDomain THEN <<TRUE, NONE>>
                      ELSE <<optimal.address = ip, optimal.address>>

(***************************************************************************)
(* The quorum cost model of moveleader.py.  Its OptimalLeaderCalculator    *)
(* has the same tables and the same get_latency as predict_leader.py's;    *)
(* the operators of predict_leader.py above keep their names and those of  *)
(* moveleader.py that differ carry the prefix moveleader_.                 *)
(***************************************************************************)
\* math.inf, and an int, as the commit latency of a candidate
Inf == [inf |-> TRUE, v |-> 0]
Fin(n) == [inf |-> FALSE, v |-> n]

\* sum(domain.nodes for domain in domains)
RECURSIVE total_nodes(_)
total_nodes(ds) ==
    IF ds = << >> THEN 0 ELSE Head(ds).nodes + total_nodes(Tail(ds))

\* the quorum without the "+ 1": half of the nodes, not a majority
quorum_size_Half(ds) == total_nodes(ds) \div 2

\* math.floor(total_nodes / 2) + 1: the true division of a non-negative int
\* by 2, rounded down
quorum_size(ds) == (total_nodes(ds) \div 2) + 1

\* calculate_commit_latency, lines 163-167: the latencies from the leader
\* to the domains of another id, in the order of the list
RECURSIVE Latencies(_, _)
Latencies(leader_domain, ds) ==
    IF ds = << >> THEN << >>
    ELSE LET rest == Latencies(leader_domain, Tail(ds))
         IN  IF Head(ds).id # leader_domain.id
             THEN <<get_latency(leader_domain.address, Head(ds).address)>>
                  \o rest
             ELSE rest

RECURSIVE Insert(_, _)
Insert(x, s) ==
    IF s = << >> THEN <<x>>
    ELSE IF x <= Head(s) THEN <<x>> \o s
    ELSE <<Head(s)>> \o Insert(x, Tail(s))

\* list.sort() of a list of ints
RECURSIVE sort(_)
sort(s) == IF s = << >> THEN << >> ELSE Insert(Head(s), sort(Tail(s)))

\* calculate_commit_latency with latencies.sort() left out
calculate_commit_latency_Unsorted(leader_domain, ds, q) ==
    LET latencies == Latencies(leader_domain, ds)
        followers_needed == q - 1
    IN  IF followers_needed > Len(latencies) THEN Inf
        ELSE IF followers_needed <= 0 THEN Fin(0)
        ELSE Fin(latencies[followers_needed])

\* calculate_commit_latency waiting for every follower: the largest latency
calculate_commit_latency_Slowest(leader_domain, ds, q) ==
    LET latencies == sort(Latencies(leader_domain, ds))
        followers_needed == q - 1
    IN  IF followers_needed > Len(latencies) THEN Inf
        ELSE IF followers_needed <= 0 THEN Fin(0)
        ELSE Fin(latencies[Len(latencies)])

\* OptimalLeaderCalculator.calculate_commit_latency (moveleader.py);
\* latencies[followers_needed - 1] of the 0-based list
calculate_commit_latency(leader_domain, ds, q) ==
    LET latencies == sort(Latencies(leader_domain, ds))
        followers_needed == q - 1
    IN  IF followers_needed > Len(latencies) THEN Inf
        ELSE IF followers_needed <= 0 THEN Fin(0)
        ELSE Fin(latencies[followers_needed])

\* calculate_total_latency, lines 195-203: <<sum of the read latencies,
\* total_write_requests>>
RECURSIVE ReadAndWrites(_, _)
ReadAndWrites(leader_domain, ds) ==
    IF ds = << >> THEN <<0, 0>>
    ELSE LET domain == Head(ds)
             read_latency ==
                 IF domain.id = leader_domain.id THEN 0
                 ELSE get_latency(leader_domain.address, domain.address)
             rest == ReadAndWrites(leader_domain, Tail(ds))
         IN  <<domain.read_requests * read_latency + rest[1],
               domain.write_requests + rest[2]>>

\* OptimalLeaderCalculator.calculate_total_latency (moveleader.py)
moveleader_calculate_total_latency(leader_domain, ds, commit_latency) ==
    LET rw == ReadAndWrites(leader_domain, ds)
    IN  rw[1] + commit_latency * rw[2]

\* the value find_optimal_leader returns: its shape as a Python value, and
\* the leader and the cost when the shape has them
Result(shape, leader, cost) ==
    [called |-> TRUE, shape |-> shape, leader |-> leader, cost |-> cost]

\* the loop of lines 236-256 from candidate i on: <<optimal_leader,
\* min_total_latency>>, optimal_leader = NoDomain standing for None with
\* min_total_latency = float('inf')
RECURSIVE moveleader_BestFrom(_, _, _, _)
moveleader_BestFrom(ds, i, optimal_leader, min_total_latency) ==
    IF i > Len(ds) THEN <<optimal_leader, min_total_latency>>
    ELSE LET leader_candidate == ds[i]
             commit_latency ==
                 calculate_commit_latency(leader_candidate, ds,
                                          quorum_size(ds))
             total_latency ==
                 moveleader_calculate_total_latency(leader_candidate, ds,
                                                    commit_latency.v)
         IN  IF commit_latency.inf
             THEN moveleader_BestFrom(ds, i + 1, optimal_leader,
                                      min_total_latency)
             ELSE IF optimal_leader = NoDomain
                     \/ total_latency < min_total_latency
             THEN moveleader_BestFrom(ds, i + 1, leader_candidate,
                                      total_latency)
             ELSE moveleader_BestFrom(ds, i + 1, optimal_leader,
                                      min_total_latency)

\* OptimalLeaderCalculator.find_optimal_leader (moveleader.py).  Line 221
\* returns None; line 258 returns the tuple of optimal_leader and of the
\* conditional expression (min_total_latency if optimal_leader else
\* (None, None)), the comma binding less tightly than the conditional.
moveleader_find_optimal_leader(ds) ==
    IF ds = << >> THEN Result("None", NoDomain, 0)
    ELSE LET r == moveleader_BestFrom(ds, 1, NoDomain, 0)
         IN  IF r[1] # NoDomain THEN Result("(leader, cost)", r[1], r[2])
             ELSE Result("(None, (None, None))", NoDomain, 0)

\* the value predict_leader.py's find_optimal_leader returns, lines 254-255
\* and 268
predict_leader_result(ds) ==
    LET r == find_optimal_leader(ds)
    IN  IF r[1] = NoDomain THEN Result("(None, None)", NoDomain, 0)
        ELSE Result("(leader, cost)", r[1], r[2])

(***************************************************************************)
(* BufferedPredictedLeaderWriter (leader_logger.py).  The writer is the    *)
(* record [buffer, csv]; csv is the file at csv_path: whether it exists,   *)
(* whether it starts with the header row, its data rows, and the number    *)
(* of append-mode writes made to it.                                       *)
(***************************************************************************)
\* BufferedPredictedLeaderWriter._ensure_file
ensure_file(csv) ==
    IF csv.exists THEN csv
    ELSE [csv EXCEPT !.exists = TRUE, !.header = TRUE]

\* _flush_buffer without the buffer.clear() of line 31
flush_buffer_NoClear(w) ==
    IF w.buffer = << >> THEN w
    ELSE [w EXCEPT !.csv = [ensure_file(w.csv) EXCEPT !.rows = @ \o w.buffer,
                                                       !.appends = @ + 1]]

\* BufferedPredictedLeaderWriter._flush_buffer
flush_buffer(w) ==
    IF w.buffer = << >> THEN w
    ELSE [buffer |-> << >>,
          csv |-> [ensure_file(w.csv) EXCEPT !.rows = @ \o w.buffer,
                                             !.appends = @ + 1]]

\* record with the buffering lost: every decision is written at once
record_WriteThrough(w, leader_ip, move, now) ==
    flush_buffer([w EXCEPT !.buffer = Append(@, <<now, leader_ip>>)])

\* record that leaves the flush of a migrate decision to flush_remaining
record_BufferOnly(w, leader_ip, move, now) ==
    [w EXCEPT !.buffer = Append(@, <<now, leader_ip>>)]

\* BufferedPredictedLeaderWriter.record; now is the time of the call
record(w, leader_ip, move, now) ==
    LET row == <<now, leader_ip>>
    IN  IF ~move THEN [w EXCEPT !.buffer = Append(@, row)]
        ELSE flush_buffer([w EXCEPT !.buffer = Append(@, row)])

\* BufferedPredictedLeaderWriter.flush_remaining
flush_remaining(w) == flush_buffer(w)

(***************************************************************************)
(* State.                                                                  *)
(***************************************************************************)
VARIABLES
    pc,              \* position of the control loop / of the executor
    MAX_ITERS,       \* the configured iteration cap (0: none)
    self_ip,         \* get_current_leader_ip()
    it,              \* main: it
    rounds,          \* main: rounds
    is_self,         \* main: is_self
    optimal_ip,      \* main: optimal_ip
    will_move,       \* main: will_move
    raised,          \* the evaluation of the last tick raised an exception
    init_failures,   \* passes of the try block of INIT that raised
    clock,           \* wall clock of the control loop, in seconds
    logger,          \* the BufferedPredictedLeaderWriter and its file
    snapshot_exists, \* /etcd/etcd-release-3.4/raft_stats.csv exists
    scp_calls,       \* the scp commands run, by target host
    move_cmds,       \* the etcdctl move-leader commands run
    timing_rows,     \* rows of move_leader_timeA.csv written by this run
    ok,              \* main: ok, the executor's return value (0: none yet)
    metrics_rows,    \* rows of leader_move_metricsA.csv written by this run
    stop_evt,        \* ReloadWorker.stop_evt is set
    cur_f,           \* main: cur_f, the forecaster get() returned (0: none)
    candidate,       \* history: address of the leader the cost model
                     \* returned to the last tick (None: none returned)
    forecasters,     \* the Forecaster objects made so far, by identity
    holder_f,        \* ForecasterHolder._f
    lock,            \* owner of ForecasterHolder._lock
    now,             \* time.time() of the reload worker
    sig,             \* ModelReloader._signature() of the artifact files
    last_sig,        \* ModelReloader.last_sig
    last_seen_change_ts, \* ModelReloader.last_seen_change_ts (0: unset)
    wpc,             \* position of ReloadWorker.run
    wait_start,      \* time at which stop_evt.wait(interval) was entered
    fnew,            \* ReloadWorker.run: fnew (0: none)
    triggers,        \* history: polls at which changed_and_stable was True
    reloads,         \* history: calls of holder.set by the worker
    ctor_failed,     \* history: a reload construction has failed
    sig_changes,     \* history: changes of the artifact files so far
    scenario,        \* history: what the artifact files have done so far
    first_poll_ts,   \* history: time of the first poll since the change
    last_poll_ts,    \* history: time of the last poll since the change
    retry_due,       \* history: the worker's last attempt failed, no poll since
    evaluated,       \* history: where the last tick's evaluation returned
    worker_started,  \* main: reload_worker.start() has returned
    train_pc,        \* position of train.run_train in its artifact writes
    runs,            \* training runs that have written their artifacts
    last_write_ts,   \* history: time of the last write of an artifact file
    cpc,             \* position of the cost-model evaluation
    domains,         \* the List[Domain] given to the cost models
    scores,          \* per candidate: commit latency and total latencies
    pl_result,       \* what predict_leader.find_optimal_leader returned
    ml_result,       \* what moveleader.find_optimal_leader returned
    forecast,        \* the pred_df given to build_domains_from_pred_mean
    latency_calls,   \* the calls of get_latency made, with what they returned
    upc,             \* update.py: position of main_loop
    _stop,           \* update.py: _stop
    did_update,      \* main_loop: updated
    waited,          \* main_loop: iterations of the wait loop done
    elapsed,         \* main_loop: seconds of the probing window used up
    probe,           \* main_loop: what the last is_leader() returned
    snap_path,       \* main_loop: the snapshot file exists
    rc,              \* main_loop: rc, the training exit code (-1: none)
    trainings,       \* history: training runs started in this cycle
    load_rows,       \* rotate_ycsb.py: args.load_rows
    rightIP,         \* the rows of rightIP.csv, by slot
    slot,            \* rotate_ycsb.py, main: slot
    row              \* rotate_ycsb.py, main: row (-1: no slot started)

loop_vars == <<MAX_ITERS, self_ip, it, rounds, is_self, optimal_ip,
               will_move, raised, init_failures, clock, logger, cur_f>>
main_vars == <<pc, loop_vars, stop_evt>>
exec_vars == <<snapshot_exists, scp_calls, move_cmds, timing_rows, ok,
               metrics_rows>>
holder_vars == <<forecasters, holder_f, lock>>
worker_vars == <<last_sig, last_seen_change_ts, wpc, wait_start, fnew>>
env_vars == <<now, sig>>
history_vars == <<triggers, reloads, ctor_failed, sig_changes, scenario,
                  first_poll_ts, last_poll_ts>>
reload_vars == <<holder_vars, worker_vars, env_vars, history_vars>>
cost_vars == <<cpc, domains, scores, pl_result, ml_result>>
train_vars == <<train_pc, runs, last_write_ts>>
update_vars == <<upc, _stop, did_update, waited, elapsed, probe, snap_path, rc,
                 trainings>>
plan_vars == <<load_rows, rightIP, slot, row>>
tool_vars == <<forecast, latency_calls, update_vars, plan_vars>>
other_vars == <<cost_vars, retry_due, candidate, evaluated, worker_started,
                train_vars, tool_vars>>
vars == <<main_vars, exec_vars, reload_vars, other_vars>>

Sigs == 0..MaxSig

\* the holder, the worker and the artifact files once main has built the
\* first forecaster and started the worker (lines 426-440, 115-118)
ReloadInit ==
    /\ forecasters = <<[status |-> "ok", built_from |-> 0, observed |-> 0]>>
    /\ holder_f = 1
    /\ lock = "free"
    /\ now = 1
    /\ sig = 0
    /\ last_sig = 0
    /\ last_seen_change_ts = 0
    /\ wpc = "wait"
    /\ wait_start = 1
    /\ fnew = 0
    /\ triggers = 0
    /\ reloads = 0
    /\ ctor_failed = FALSE
    /\ sig_changes = 0
    /\ scenario = "none"
    /\ first_poll_ts = 0
    /\ last_poll_ts = 0
    /\ retry_due = FALSE

\* no call of find_optimal_leader made so far
NoResult ==
    [called |-> FALSE, shape |-> "-", leader |-> NoDomain, cost |-> 0]

\* no candidate scored so far
NoScores == [quorum_size |-> 0, commit |-> << >>, total |-> << >>,
             simple |-> << >>]

\* no training run is writing the artifact files
TrainIdle ==
    /\ train_pc = "idle"
    /\ runs = 0
    /\ last_write_ts = 0

\* update.py not started
UpdateIdle ==
    /\ upc = "idle"
    /\ _stop = FALSE
    /\ did_update = FALSE
    /\ waited = 0
    /\ elapsed = 0
    /\ probe = FALSE
    /\ snap_path = FALSE
    /\ rc = -1
    /\ trainings = 0

\* rotate_ycsb.py not started
PlanIdle ==
    /\ load_rows = 0
    /\ rightIP = << >>
    /\ slot = 0
    /\ row = -1

\* the helper scripts and the pure functions at rest
ToolsIdle ==
    /\ forecast = EmptyForecast
    /\ latency_calls = << >>
    /\ UpdateIdle
    /\ PlanIdle

\* the cost models at rest: the specifications of the control loop, of the
\* executor and of the reload worker take the decision of a tick in one step
CostIdle ==
    /\ cpc = "idle"
    /\ domains = << >>
    /\ scores = NoScores
    /\ pl_result = NoResult
    /\ ml_result = NoResult

IPS == DOMAIN ip_to_index

\* the state main() starts from
Init ==
    /\ pc = "init"
    /\ MAX_ITERS \in 0..MaxItersCfg
    /\ self_ip \in IPS
    /\ it = 0
    /\ rounds = 0
    /\ is_self = TRUE
    /\ optimal_ip = NONE
    /\ will_move = FALSE
    /\ raised = FALSE
    /\ init_failures = 0
    /\ clock = 0
    /\ logger \in {[buffer |-> << >>,
                    csv |-> [exists |-> e, header |-> e, rows |-> << >>,
                             appends |-> 0]] : e \in BOOLEAN}
    /\ snapshot_exists \in BOOLEAN
    /\ scp_calls = << >>
    /\ move_cmds = << >>
    /\ timing_rows = << >>
    /\ ok = 0
    /\ metrics_rows = << >>
    /\ stop_evt = FALSE
    /\ cur_f = 0
    /\ candidate = NONE
    /\ evaluated = "-"
    /\ worker_started = FALSE
    /\ TrainIdle
    /\ ToolsIdle
    /\ ReloadInit
    /\ CostIdle

(***************************************************************************)
(* main(): the control loop.                                               *)
(***************************************************************************)
\* main, lines 423-451: construct the first forecaster, retrying after a
\* backoff
InitForecaster(ctor_ok) ==
    /\ pc = "init"
    /\ IF ctor_ok
       THEN /\ pc' = "tick"
            /\ clock' = clock + SLEEP_SEC
            /\ worker_started' = TRUE
            /\ UNCHANGED init_failures
       ELSE /\ init_failures < MaxInitRetries
            /\ init_failures' = init_failures + 1
            /\ clock' = clock + INIT_BACKOFF_SEC
            /\ UNCHANGED <<pc, worker_started>>
    /\ UNCHANGED <<cost_vars, retry_due, candidate, evaluated,
                   train_vars, tool_vars,
                   MAX_ITERS, self_ip, it, rounds, is_self, optimal_ip,
                   will_move, raised, logger, cur_f, stop_evt, exec_vars,
                   reload_vars>>

\* main, lines 424-451: Forecaster(...) returns and is assigned (426), then
\* the construction of the ReloadWorker (434-439, which reads the artifact
\* files' signature twice) or its start (440) raises: the except clause
\* sleeps the backoff and `while forecaster is None` is left with no
\* worker started
InitReloadWorkerRaises ==
    /\ pc = "init"
    /\ init_failures < MaxInitRetries
    /\ pc' = "tick"
    /\ init_failures' = init_failures + 1
    /\ clock' = clock + INIT_BACKOFF_SEC + SLEEP_SEC
    /\ UNCHANGED <<other_vars, MAX_ITERS, self_ip, it, rounds, is_self,
                   optimal_ip, will_move, raised, logger, cur_f, stop_evt,
                   exec_vars, reload_vars>>

\* run_once_and_decide, lines 384-395: optimal, the candidate the cost
\* model returns for the forecast pred_df; NoDomain when it returns None
\* or is not reached
Candidate(pred_df) ==
    LET ds == build_domains_from_pred_mean(pred_df)
    IN  IF pred_df.empty \/ ds = << >> THEN NoDomain
        ELSE find_optimal_leader(ds)[1]

\* run_once_and_decide, lines 384-403: the return statement that ends the
\* evaluation of pred_df, given the address of the leader the cost model
\* returned to it (None: none returned): predict returned an empty frame
\* (386), no Domain was built (392), the cost model returned no leader
\* (398), or the leader's address is compared with the local one (403)
Returned(pred_df, leader) ==
    IF leader # NONE THEN "compared"
    ELSE IF pred_df.empty THEN "empty"
    ELSE IF build_domains_from_pred_mean(pred_df) = << >> THEN "no_domains"
    ELSE "no_optimal"

\* the decision with will_move set whenever a candidate was returned,
\* the local replica or not
Decide_MoveToAnyCandidate(fault, pred_df, ip, history_exists) ==
    LET exc == fault # "none" \/ ~history_exists
        res == IF exc THEN <<TRUE, NONE>> ELSE run_once_and_decide(pred_df, ip)
    IN  [raised |-> exc, is_self |-> res[1], optimal_ip |-> res[2],
         will_move |-> res[2] # NONE,
         candidate |-> IF exc THEN NONE ELSE Candidate(pred_df).address]

\* the decision of one tick: [raised, is_self, optimal_ip, will_move], and
\* the address of the candidate that find_optimal_leader returned to it
Decide(fault, pred_df, ip, history_exists) ==
    LET exc == fault # "none" \/ ~history_exists
        res == IF exc THEN <<TRUE, NONE>> ELSE run_once_and_decide(pred_df, ip)
        move == ~res[1]
    IN  [raised |-> exc, is_self |-> res[1], optimal_ip |-> res[2],
         will_move |-> IF move /\ res[2] = NONE THEN FALSE ELSE move,
         candidate |-> IF exc THEN NONE ELSE Candidate(pred_df).address]

\* Tick without the try/except of lines 459-472: the exception leaves main
Tick_NoExcept(fault, pred_df) ==
    /\ pc = "tick"
    /\ it < MaxTicks
    /\ LET d == Decide(fault, pred_df, self_ip, snapshot_exists)
           leader_for_log == IF ~d.will_move THEN self_ip ELSE d.optimal_ip
       IN  /\ it' = it + 1
           /\ raised' = d.raised
           /\ rounds' = IF d.raised THEN rounds ELSE rounds + 1
           /\ is_self' = d.is_self
           /\ optimal_ip' = d.optimal_ip
           /\ will_move' = d.will_move
           /\ candidate' = d.candidate
           /\ evaluated' = IF d.raised THEN "raised"
                           ELSE Returned(pred_df, candidate')
           /\ cur_f' = IF fault = "get" THEN cur_f ELSE holder_f
           /\ logger' = IF d.raised THEN logger
                        ELSE record(logger, leader_for_log, d.will_move, clock)
           /\ pc' = IF d.raised THEN "raised"
                    ELSE IF d.will_move THEN "exec_scp" ELSE "keep"
    /\ UNCHANGED <<cost_vars, retry_due, worker_started,
                   train_vars, tool_vars,
                   MAX_ITERS, self_ip, init_failures,
                   clock, stop_evt, exec_vars, reload_vars>>

\* Tick that logs the local address whatever the decision
Tick_LogSelf(fault, pred_df) ==
    /\ pc = "tick"
    /\ it < MaxTicks
    /\ LET d == Decide(fault, pred_df, self_ip, snapshot_exists)
           leader_for_log == self_ip
       IN  /\ it' = it + 1
           /\ raised' = d.raised
           /\ rounds' = IF d.raised THEN rounds ELSE rounds + 1
           /\ is_self' = d.is_self
           /\ optimal_ip' = d.optimal_ip
           /\ will_move' = d.will_move
           /\ candidate' = d.candidate
           /\ evaluated' = IF d.raised THEN "raised"
                           ELSE Returned(pred_df, candidate')
           /\ cur_f' = IF fault = "get" THEN cur_f ELSE holder_f
           /\ logger' = record(logger, leader_for_log, d.will_move, clock)
           /\ pc' = IF d.will_move THEN "exec_scp" ELSE "keep"
    /\ UNCHANGED <<cost_vars, retry_due, worker_started,
                   train_vars, tool_vars,
                   MAX_ITERS, self_ip, init_failures,
                   clock, stop_evt, exec_vars, reload_vars>>

\* main, lines 456-481: one tick up to the recording of its decision.
\* fault names the call of the try block that raises, if any; predict
\* also raises when the history file is missing.
Tick(fault, pred_df) ==
    /\ pc = "tick"
    /\ it < MaxTicks
    /\ LET d == Decide(fault, pred_df, self_ip, snapshot_exists)
           leader_for_log == IF ~d.will_move THEN self_ip ELSE d.optimal_ip
       IN  /\ it' = it + 1
           /\ raised' = d.raised
           /\ rounds' = IF d.raised THEN rounds ELSE rounds + 1
           /\ is_self' = d.is_self
           /\ optimal_ip' = d.optimal_ip
           /\ will_move' = d.will_move
           /\ candidate' = d.candidate
           /\ evaluated' = IF d.raised THEN "raised"
                           ELSE Returned(pred_df, candidate')
           /\ cur_f' = IF fault = "get" THEN cur_f ELSE holder_f
           /\ logger' = record(logger, leader_for_log, d.will_move, clock)
           /\ pc' = IF d.will_move THEN "exec_scp" ELSE "keep"
    /\ UNCHANGED <<cost_vars, retry_due, worker_started,
                   train_vars, tool_vars,
                   MAX_ITERS, self_ip, init_failures,
                   clock, stop_evt, exec_vars, reload_vars>>

\* Keep with the cap test lacking MAX_ITERS > 0
Keep_CapZero ==
    /\ pc = "keep"
    /\ IF it >= MAX_ITERS
       THEN /\ pc' = "done"
            /\ stop_evt' = TRUE
            /\ UNCHANGED clock
       ELSE /\ pc' = "tick"
            /\ clock' = clock + INTERVAL_SEC
            /\ UNCHANGED stop_evt
    /\ UNCHANGED <<other_vars, MAX_ITERS, self_ip, it, rounds, is_self,
                   optimal_ip, will_move, raised, init_failures, logger, cur_f,
                   exec_vars, reload_vars>>

\* main, lines 485-492 and 526-535: a keep tick ends the loop at the cap,
\* else sleeps
Keep ==
    /\ pc = "keep"
    /\ IF MAX_ITERS > 0 /\ it >= MAX_ITERS
       THEN /\ pc' = "done"
            /\ stop_evt' = TRUE
            /\ UNCHANGED clock
       ELSE /\ pc' = "tick"
            /\ clock' = clock + INTERVAL_SEC
            /\ UNCHANGED stop_evt
    /\ UNCHANGED <<other_vars, MAX_ITERS, self_ip, it, rounds, is_self,
                   optimal_ip, will_move, raised, init_failures, logger, cur_f,
                   exec_vars, reload_vars>>

(***************************************************************************)
(* OptimalLeaderCalculator.check_and_transfer_leader(self_ip, optimal_ip). *)
(***************************************************************************)
\* ScpToHost that tries the copy again when it has failed
ScpToHost_Retry(copied) ==
    /\ pc = "exec_scp"
    /\ IF ~snapshot_exists
       THEN /\ pc' = "raised"
            /\ UNCHANGED scp_calls
       ELSE /\ scp_calls' = Append(scp_calls, optimal_ip)
            /\ pc' = IF copied THEN "exec_move" ELSE "exec_scp"
    /\ UNCHANGED <<other_vars, loop_vars, stop_evt, snapshot_exists, move_cmds,
                   timing_rows, ok, metrics_rows,
                   reload_vars>>

\* lines 288-289 and scp_to_host: copy the snapshot to the target host
ScpToHost(copied) ==
    /\ pc = "exec_scp"
    /\ IF ~snapshot_exists
       THEN /\ pc' = "raised"
            /\ UNCHANGED scp_calls
       ELSE /\ scp_calls' = Append(scp_calls, optimal_ip)
            /\ pc' = IF copied THEN "exec_move" ELSE "raised"
    /\ UNCHANGED <<other_vars, loop_vars, stop_evt, snapshot_exists, move_cmds,
                   timing_rows, ok, metrics_rows,
                   reload_vars>>

\* the etcdctl command of lines 291-298
MoveCommand(current_leader_ip, optimal_leader_ip) ==
    LET endpoint == optimal_leader_ip \o ":2379"
        current_leader_url == current_leader_ip \o ":2379"
    IN  [endpoints |-> current_leader_url,
         target |-> IF endpoint \in DOMAIN IpToId THEN IpToId[endpoint]
                    ELSE UNKNOWN]

\* what move_leader_with_timing does with the outcome of subprocess.run:
\* a CalledProcessError is caught and timed like a success, any other
\* error leaves the function
MoveHandled(status) == status \in {"success", "failed"}

\* lines 291-304 and move_leader_with_timing: run the transfer command and
\* append its timing row
MoveLeader(status) ==
    /\ pc = "exec_move"
    /\ move_cmds' = Append(move_cmds, MoveCommand(self_ip, optimal_ip))
    /\ IF MoveHandled(status)
       THEN /\ timing_rows' = Append(timing_rows, status)
            /\ pc' = "exec_remove"
       ELSE /\ pc' = "raised"
            /\ UNCHANGED timing_rows
    /\ UNCHANGED <<other_vars, loop_vars, stop_evt, snapshot_exists, scp_calls,
                   ok, metrics_rows, reload_vars>>

\* lines 306-308: delete the local snapshot and return 1
RemoveLocal ==
    /\ pc = "exec_remove"
    /\ IF snapshot_exists
       THEN /\ snapshot_exists' = FALSE
            /\ ok' = 1
            /\ pc' = "metrics"
       ELSE /\ pc' = "raised"
            /\ UNCHANGED <<snapshot_exists, ok>>
    /\ UNCHANGED <<other_vars, loop_vars, stop_evt, scp_calls, move_cmds,
                   timing_rows, metrics_rows, reload_vars>>

\* AppendMetrics without the break of line 523: the loop goes on
AppendMetrics_NoBreak(written) ==
    /\ pc = "metrics"
    /\ metrics_rows' = IF written THEN Append(metrics_rows, [rounds |-> rounds])
                       ELSE metrics_rows
    /\ pc' = "tick"
    /\ UNCHANGED <<other_vars, loop_vars, stop_evt, snapshot_exists, scp_calls,
                   move_cmds, timing_rows, ok, reload_vars>>

\* main, lines 500-535: write the metrics row (a failed write is logged),
\* leave the loop, stop the reload worker
AppendMetrics(written) ==
    /\ pc = "metrics"
    /\ metrics_rows' = IF written THEN Append(metrics_rows, [rounds |-> rounds])
                       ELSE metrics_rows
    /\ pc' = "done"
    /\ stop_evt' = TRUE
    /\ UNCHANGED <<other_vars, loop_vars, snapshot_exists, scp_calls,
                   move_cmds, timing_rows, ok, reload_vars>>

\* Unwind with the exception leaving main past reload_worker.stop()
Unwind_NoStop ==
    /\ pc = "raised"
    /\ pc' = "crashed"
    /\ UNCHANGED <<other_vars, loop_vars, stop_evt, exec_vars,
                   reload_vars>>

\* main, lines 526-531: an exception of the executor leaves main through
\* the finally block
Unwind ==
    /\ pc = "raised"
    /\ pc' = "crashed"
    /\ stop_evt' = TRUE
    /\ UNCHANGED <<other_vars, loop_vars, exec_vars,
                   reload_vars>>

\* the calls of the try block of lines 459-472 that can raise
Faults == {"get", "predict", "project", "cost"}
MoveOutcomes == {"success", "failed", "oserror"}

MainStep ==
    \/ \E ctor_ok \in BOOLEAN : InitForecaster(ctor_ok)
    \/ \E pred_df \in Forecasts : Tick("none", pred_df)
    \/ \E fault \in Faults : Tick(fault, EmptyForecast)
    \/ Keep
    \/ \E copied \in BOOLEAN : ScpToHost(copied)
    \/ \E status \in MoveOutcomes : MoveLeader(status)
    \/ RemoveLocal
    \/ \E written \in BOOLEAN : AppendMetrics(written)
    \/ Unwind

Next == MainStep

Spec == Init /\ [][Next]_vars

\* the control loop is sequential code whose calls return
FairSpec == Spec /\ WF_vars(MainStep)

\* the control loop with the start of the ReloadWorker as a step of INIT
\* that can fail
BootNext ==
    \/ MainStep
    \/ InitReloadWorkerRaises

SpecBoot == Init /\ [][BootNext]_vars

terminated == pc \in {"done", "crashed"}

(***************************************************************************)
(* Properties of the control loop (Spec, FairSpec).                        *)
(***************************************************************************)
\* the executor has ended
ExecutorEnded == pc \in {"metrics", "raised", "done", "crashed"} /\ will_move
\* the time of the first tick, and of tick i
FirstTickTime == init_failures * INIT_BACKOFF_SEC + SLEEP_SEC
TickTime(i) == FirstTickTime + (i - 1) * INTERVAL_SEC

\* C1: the leadership-transfer command (and the snapshot copy) is issued at
\* most once in a run; a migrate decision is followed only by the executor
\* and the end of the process, never by another tick, and once the command
\* has been issued the run is past the point where it could be issued again.
C1_TransferAtMostOnce ==
    /\ Len(move_cmds) <= 1
    /\ Len(scp_calls) <= 1
    /\ will_move => pc \in {"exec_scp", "exec_move", "exec_remove", "metrics",
                            "raised", "done", "crashed"}
    /\ move_cmds # << >> =>
          /\ will_move
          /\ pc \in {"exec_remove", "metrics", "raised", "done", "crashed"}

\* C1 witness: the process has ended after a transfer command that failed
C1_Witness ==
    /\ pc = "done"
    /\ Len(move_cmds) = 1
    /\ timing_rows = <<"failed">>
    /\ it >= 2

\* C4: while only keep decisions have been recorded no row is persisted and
\* nothing has been written to the file; once the migrate decision of tick
\* N+1 is recorded the file holds exactly N+1 data rows, the N keep rows
\* (own address) then the migrate row (target address), in the order of
\* the ticks, written by one append, and the buffer is empty.
C4_DecisionLog ==
    /\ ~will_move =>
          /\ logger.csv.rows = << >>
          /\ logger.csv.appends = 0
          /\ Len(logger.buffer) = it
    /\ will_move =>
          /\ Len(logger.csv.rows) = it
          /\ logger.csv.appends = 1
          /\ logger.csv.exists /\ logger.csv.header
          /\ logger.buffer = << >>
          /\ \A i \in 1..it :
                logger.csv.rows[i] =
                    <<TickTime(i), IF i < it THEN self_ip ELSE optimal_ip>>

\* C4 witness: two keep decisions then a migrate decision, three rows
C4_Witness ==
    /\ will_move
    /\ it = 3
    /\ Len(logger.csv.rows) = 3
    /\ logger.csv.rows[3][2] # self_ip

\* C5 as stated: after a tick whose evaluation raised, the loop always
\* goes on to the next tick.
C5_NextTickAlways == [][(pc = "keep" /\ raised) => pc' = "tick"]_vars

\* C5 amended: a tick whose evaluation raised ends as a keep decision with
\* no target, the exception does not leave the loop and no migration step
\* is taken; the loop then goes on to the next tick, unless an iteration
\* cap is configured and reached, in which case it ends as after any keep.
C5_ExceptionIsKeep ==
    /\ [](raised =>
            /\ ~will_move /\ is_self /\ optimal_ip = NONE
            /\ pc \in {"keep", "tick", "done"}
            /\ scp_calls = << >> /\ move_cmds = << >>
            /\ logger.buffer # << >>
            /\ logger.buffer[Len(logger.buffer)][2] = self_ip)
    /\ [][(pc = "keep" /\ raised) =>
            \/ pc' = "tick"
            \/ MAX_ITERS > 0 /\ it >= MAX_ITERS /\ pc' = "done"]_vars

\* C5 witness: a tick raised, was recorded as keep, and the next tick is due
C5_Witness ==
    /\ raised
    /\ pc = "tick"
    /\ it = 2
    /\ ~will_move

\* C6: with no iteration cap the process ends only after a migrate decision
\* and the attempt to carry it out, and every keep tick below the explored
\* number of ticks is followed by another tick.
C6_NoCapRunsUntilMigration ==
    /\ []((MAX_ITERS = 0 /\ terminated) => (will_move /\ Len(scp_calls) = 1))
    /\ \A n \in 1..(MaxTicks - 1) :
          (MAX_ITERS = 0 /\ pc = "keep" /\ it = n) ~> (it = n + 1)

\* C6 witness: no cap, keep decisions at every explored tick, still running
C6_Witness ==
    /\ MAX_ITERS = 0
    /\ it = MaxTicks
    /\ pc = "keep"
    /\ Len(logger.buffer) = MaxTicks

\* C7: when a keep tick reaches the configured cap and the process ends,
\* every decision of the run has been persisted.
C7_FlushedAtCap ==
    (pc = "done" /\ ~will_move /\ MAX_ITERS > 0) =>
        /\ logger.buffer = << >>
        /\ Len(logger.csv.rows) = it

\* C9: after a migrate decision the process ends with exactly one metrics
\* row recorded, whatever the executor's outcome.
C9_OneMetricsRow ==
    (terminated /\ will_move) => Len(metrics_rows) = 1

\* C10: when the executor has ended and the transfer command did not
\* succeed (the copy failed, or the command failed), the local snapshot
\* file still exists.
C10_SnapshotKeptOnFailure ==
    (ExecutorEnded /\ timing_rows # <<"success">>) => snapshot_exists

(***************************************************************************)
(* SpecExec: check_and_transfer_leader called with any pair of addresses,  *)
(* known to the static tables or not.                                      *)
(***************************************************************************)
Addresses == IPS \cup {"192.168.0.99"}

InitExec ==
    /\ pc \in {"exec_scp", "ml_scp"}
    /\ self_ip \in Addresses
    /\ optimal_ip \in Addresses
    /\ will_move = TRUE
    /\ is_self = FALSE
    /\ MAX_ITERS = 0
    /\ it = 0
    /\ rounds = 0
    /\ raised = FALSE
    /\ init_failures = 0
    /\ clock = 0
    /\ logger = [buffer |-> << >>,
                 csv |-> [exists |-> FALSE, header |-> FALSE, rows |-> << >>,
                          appends |-> 0]]
    /\ snapshot_exists \in BOOLEAN
    /\ scp_calls = << >>
    /\ move_cmds = << >>
    /\ timing_rows = << >>
    /\ ok = 0
    /\ metrics_rows = << >>
    /\ stop_evt = FALSE
    /\ cur_f = 0
    /\ candidate = NONE
    /\ evaluated = "-"
    /\ worker_started = TRUE
    /\ TrainIdle
    /\ ToolsIdle
    /\ ReloadInit
    /\ CostIdle

(***************************************************************************)
(* moveleader.py, OptimalLeaderCalculator.check_and_transfer_leader, with  *)
(* self_ip as its current_leader_ip and optimal_ip as its                  *)
(* optimal_leader_ip.                                                      *)
(***************************************************************************)
\* moveleader.py, lines 280-281 and scp_to_host: the snapshot is copied to
\* the host named by endpoint; a missing file or a failed scp raises
moveleader_ScpToHost(copied) ==
    /\ pc = "ml_scp"
    /\ IF ~snapshot_exists
       THEN /\ pc' = "raised"
            /\ UNCHANGED scp_calls
       ELSE /\ scp_calls' = Append(scp_calls, optimal_ip \o ":2379")
            /\ pc' = IF copied THEN "ml_move" ELSE "raised"
    /\ UNCHANGED <<other_vars, loop_vars, stop_evt, snapshot_exists, move_cmds,
                   timing_rows, ok, metrics_rows, reload_vars>>

\* moveleader.py, lines 280-288: the etcdctl command
moveleader_MoveCommand(current_leader_ip, optimal_leader_ip) ==
    LET endpoint == optimal_leader_ip \o ":2379"
    IN  [endpoints |-> endpoint,
         target |-> IF endpoint \in DOMAIN IpToId THEN IpToId[endpoint]
                    ELSE UNKNOWN]

\* moveleader.py, lines 283-292: run the transfer command with check=True;
\* any failure raises
moveleader_MoveLeader(status) ==
    /\ pc = "ml_move"
    /\ move_cmds' = Append(move_cmds, moveleader_MoveCommand(self_ip, optimal_ip))
    /\ pc' = IF status = "success" THEN "ml_remove" ELSE "raised"
    /\ UNCHANGED <<other_vars, loop_vars, stop_evt, snapshot_exists, scp_calls,
                   timing_rows, ok, metrics_rows, reload_vars>>

\* moveleader.py, lines 294-297: delete the local snapshot and return
moveleader_RemoveLocal ==
    /\ pc = "ml_remove"
    /\ IF snapshot_exists
       THEN /\ snapshot_exists' = FALSE
            /\ pc' = "ml_returned"
       ELSE /\ pc' = "raised"
            /\ UNCHANGED snapshot_exists
    /\ UNCHANGED <<other_vars, loop_vars, stop_evt, scp_calls, move_cmds,
                   timing_rows, ok, metrics_rows, reload_vars>>

ExecNext ==
    \/ \E copied \in BOOLEAN : ScpToHost(copied)
    \/ \E status \in MoveOutcomes : MoveLeader(status)
    \/ RemoveLocal
    \/ \E copied \in BOOLEAN : moveleader_ScpToHost(copied)
    \/ \E status \in MoveOutcomes : moveleader_MoveLeader(status)
    \/ moveleader_RemoveLocal

SpecExec == InitExec /\ [][ExecNext]_vars

\* C8: when the target address with its endpoint port is absent from the
\* address-to-identity map, no leadership-transfer command is issued.
C8_UnresolvedTargetNoCommand ==
    (optimal_ip \o ":2379") \notin DOMAIN IpToId => move_cmds = << >>

(***************************************************************************)
(* ModelReloader, ForecasterHolder and ReloadWorker.                       *)
(***************************************************************************)
\* changed_and_stable without the debounce: True at the first sighting
changed_and_stable_NoDebounce(cur, loaded, seen_ts, t) ==
    IF cur = loaded THEN [ret |-> FALSE, last_seen_change_ts |-> 0]
    ELSE [ret |-> TRUE, last_seen_change_ts |-> t]

\* changed_and_stable that leaves last_seen_change_ts set when the
\* signature is the loaded one again
changed_and_stable_KeepPending(cur, loaded, seen_ts, t) ==
    IF cur = loaded THEN [ret |-> FALSE, last_seen_change_ts |-> seen_ts]
    ELSE IF seen_ts = 0 THEN [ret |-> FALSE, last_seen_change_ts |-> t]
    ELSE IF t - seen_ts >= debounce_sec
         THEN [ret |-> TRUE, last_seen_change_ts |-> seen_ts]
    ELSE [ret |-> FALSE, last_seen_change_ts |-> seen_ts]

\* ModelReloader.changed_and_stable: the value returned and the new
\* last_seen_change_ts, for the signature cur read at time t
changed_and_stable(cur, loaded, seen_ts, t) ==
    IF cur = loaded THEN [ret |-> FALSE, last_seen_change_ts |-> 0]
    ELSE IF seen_ts = 0 THEN [ret |-> FALSE, last_seen_change_ts |-> t]
    ELSE IF t - seen_ts >= debounce_sec
         THEN [ret |-> TRUE, last_seen_change_ts |-> seen_ts]
    ELSE [ret |-> FALSE, last_seen_change_ts |-> seen_ts]

\* the clock advances
AdvanceTime ==
    /\ now + TimeStep <= MaxTime
    /\ now' = now + TimeStep
    /\ UNCHANGED <<other_vars, main_vars, exec_vars, holder_vars, worker_vars,
                   sig, history_vars>>

\* the trainer (or anyone) replaces artifact files: the signature becomes v.
\* scenario follows what the files have done: changed once; changed once
\* and back to the loaded signature before two polls debounce_sec apart
\* could see the change; anything else.
SetSig(v) ==
    /\ v # sig
    /\ sig_changes < MaxSigChanges
    /\ sig_changes' = sig_changes + 1
    /\ sig' = v
    /\ scenario' =
          IF scenario = "none" THEN "changed"
          ELSE IF /\ scenario = "changed"
                  /\ v = last_sig
                  /\ first_poll_ts = 0 \/ now - first_poll_ts < debounce_sec
               THEN "reverted"
          ELSE "other"
    /\ first_poll_ts' = 0
    /\ last_poll_ts' = 0
    /\ UNCHANGED <<other_vars, main_vars, exec_vars, holder_vars, worker_vars,
                   now, triggers, reloads, ctor_failed>>

\* ReloadWorker.run, lines 124-128: the wait times out and the guard is
\* polled; a True poll starts the construction of a new forecaster
Poll ==
    /\ wpc = "wait"
    /\ ~stop_evt
    /\ now >= wait_start + interval_sec
    /\ LET r == changed_and_stable(sig, last_sig, last_seen_change_ts, now)
       IN  /\ last_seen_change_ts' = r.last_seen_change_ts
           /\ IF r.ret
              THEN /\ wpc' = "ctor"
                   /\ forecasters' = Append(forecasters,
                          [status |-> "building", built_from |-> sig,
                           observed |-> sig])
                   /\ triggers' = triggers + 1
                   /\ UNCHANGED wait_start
              ELSE /\ wait_start' = now
                   /\ UNCHANGED <<wpc, forecasters, triggers>>
    /\ first_poll_ts' = IF scenario = "changed" /\ first_poll_ts = 0
                        THEN now ELSE first_poll_ts
    /\ last_poll_ts' = IF scenario = "changed" THEN now ELSE last_poll_ts
    /\ retry_due' = FALSE
    /\ UNCHANGED <<cost_vars, candidate, evaluated, worker_started,
                   train_vars, tool_vars,
                   main_vars, exec_vars, holder_f, lock,
                   last_sig, fnew, env_vars, reloads, ctor_failed, sig_changes,
                   scenario>>

\* CtorDone with the failure of the constructor ignored: the object is
\* published all the same
CtorDone_IgnoreFailure(ctor_ok) ==
    /\ wpc = "ctor"
    /\ forecasters' = [forecasters EXCEPT ![Len(forecasters)] =
                          [@ EXCEPT !.status = IF ctor_ok THEN "ok"
                                                ELSE "failed",
                                    !.built_from = sig]]
    /\ fnew' = Len(forecasters)
    /\ wpc' = "set"
    /\ ctor_failed' = (ctor_failed \/ ~ctor_ok)
    /\ retry_due' = FALSE
    /\ UNCHANGED <<cost_vars, candidate, evaluated, worker_started,
                   train_vars, tool_vars,
                   main_vars, exec_vars, holder_f, lock,
                   last_sig, last_seen_change_ts, wait_start, env_vars,
                   triggers, reloads, sig_changes, scenario, first_poll_ts,
                   last_poll_ts>>

\* CtorDone with a failed construction clearing last_seen_change_ts: the
\* next attempt waits for a fresh debounce window
CtorDone_FreshDebounce(ctor_ok) ==
    /\ wpc = "ctor"
    /\ forecasters' = [forecasters EXCEPT ![Len(forecasters)] =
                          [@ EXCEPT !.status = IF ctor_ok THEN "ok"
                                                ELSE "failed",
                                    !.built_from = sig]]
    /\ IF ctor_ok
       THEN /\ fnew' = Len(forecasters)
            /\ wpc' = "set"
            /\ UNCHANGED <<wait_start, ctor_failed, retry_due,
                           last_seen_change_ts>>
       ELSE /\ wpc' = "wait"
            /\ wait_start' = now
            /\ ctor_failed' = TRUE
            /\ retry_due' = TRUE
            /\ last_seen_change_ts' = 0
            /\ UNCHANGED fnew
    /\ UNCHANGED <<cost_vars, candidate, evaluated, worker_started,
                   train_vars, tool_vars,
                   main_vars, exec_vars, holder_f, lock,
                   last_sig, env_vars, triggers, reloads, sig_changes,
                   scenario, first_poll_ts, last_poll_ts>>

\* ReloadWorker.run, lines 128 and 132-133: the constructor returns the new
\* forecaster, built from the files as they are, or raises
CtorDone(ctor_ok) ==
    /\ wpc = "ctor"
    /\ forecasters' = [forecasters EXCEPT ![Len(forecasters)] =
                          [@ EXCEPT !.status = IF ctor_ok THEN "ok"
                                                ELSE "failed",
                                    !.built_from = sig]]
    /\ IF ctor_ok
       THEN /\ fnew' = Len(forecasters)
            /\ wpc' = "set"
            /\ UNCHANGED <<wait_start, ctor_failed, retry_due>>
       ELSE /\ wpc' = "wait"
            /\ wait_start' = now
            /\ ctor_failed' = TRUE
            /\ retry_due' = TRUE
            /\ UNCHANGED fnew
    /\ UNCHANGED <<cost_vars, candidate, evaluated, worker_started,
                   train_vars, tool_vars,
                   main_vars, exec_vars, holder_f, lock,
                   last_sig, last_seen_change_ts, env_vars, triggers, reloads,
                   sig_changes, scenario, first_poll_ts, last_poll_ts>>

\* ForecasterHolder.set, line 97: the worker takes the lock
SetAcquire ==
    /\ wpc = "set"
    /\ lock = "free"
    /\ lock' = "worker"
    /\ wpc' = "set_locked"
    /\ UNCHANGED <<other_vars, main_vars, exec_vars, forecasters, holder_f,
                   last_sig, last_seen_change_ts, wait_start, fnew, env_vars,
                   history_vars>>

\* ForecasterHolder.set that replaces the reference and keeps the lock
SetAssign_KeepLock ==
    /\ wpc = "set_locked"
    /\ holder_f' = fnew
    /\ lock' = "worker"
    /\ wpc' = "mark"
    /\ reloads' = reloads + 1
    /\ UNCHANGED <<other_vars, main_vars, exec_vars, forecasters, last_sig,
                   last_seen_change_ts, wait_start, fnew, env_vars, triggers,
                   ctor_failed, sig_changes, scenario, first_poll_ts,
                   last_poll_ts>>

\* ForecasterHolder.set, line 98: the reference is replaced, the lock freed
SetAssign ==
    /\ wpc = "set_locked"
    /\ holder_f' = fnew
    /\ lock' = "free"
    /\ wpc' = "mark"
    /\ reloads' = reloads + 1
    /\ UNCHANGED <<other_vars, main_vars, exec_vars, forecasters, last_sig,
                   last_seen_change_ts, wait_start, fnew, env_vars, triggers,
                   ctor_failed, sig_changes, scenario, first_poll_ts,
                   last_poll_ts>>

\* mark_loaded that leaves last_sig as it was
MarkLoaded_KeepSig ==
    /\ wpc = "mark"
    /\ last_seen_change_ts' = 0
    /\ wpc' = "wait"
    /\ wait_start' = now
    /\ UNCHANGED <<other_vars, main_vars, exec_vars, holder_vars, last_sig,
                   fnew, env_vars, history_vars>>

\* ReloadWorker.run, line 130, ModelReloader.mark_loaded: the signature is
\* read again and becomes the loaded one; the worker waits again
MarkLoaded ==
    /\ wpc = "mark"
    /\ last_sig' = sig
    /\ last_seen_change_ts' = 0
    /\ wpc' = "wait"
    /\ wait_start' = now
    /\ UNCHANGED <<other_vars, main_vars, exec_vars, holder_vars, fnew,
                   env_vars, history_vars>>

\* ReloadWorker.run, line 124: the wait returns because stop_evt is set
WorkerStop ==
    /\ wpc = "wait"
    /\ stop_evt
    /\ wpc' = "stopped"
    /\ UNCHANGED <<other_vars, main_vars, exec_vars, holder_vars, last_sig,
                   last_seen_change_ts, wait_start, fnew, env_vars,
                   history_vars>>

(***************************************************************************)
(* The control loop as the reader of the holder: main, line 460, and       *)
(* ForecasterHolder.get; the rest of a tick is one step.                   *)
(***************************************************************************)
\* ForecasterHolder.get, line 94: the control loop takes the lock
GetAcquire ==
    /\ pc = "tick"
    /\ lock = "free"
    /\ lock' = "main"
    /\ pc' = "get_locked"
    /\ UNCHANGED <<other_vars, loop_vars, stop_evt, exec_vars, forecasters,
                   holder_f, worker_vars, env_vars, history_vars>>

\* ForecasterHolder.get, line 95: the reference is returned, the lock freed
GetReturn ==
    /\ pc = "get_locked"
    /\ cur_f' = holder_f
    /\ lock' = "free"
    /\ pc' = "evaluate"
    /\ UNCHANGED <<other_vars, MAX_ITERS, self_ip, it, rounds, is_self,
                   optimal_ip, will_move, raised, init_failures, clock, logger,
                   stop_evt, exec_vars, forecasters, holder_f, worker_vars,
                   env_vars, history_vars>>

\* main, lines 463-492: the tick evaluates, decides keep and sleeps
TickKeeps ==
    /\ pc = "evaluate"
    /\ pc' = "tick"
    /\ UNCHANGED <<other_vars, loop_vars, stop_evt, exec_vars, reload_vars>>

\* main, lines 487-489 or 494-531: the loop is left and the worker is told
\* to stop
LoopExit ==
    /\ pc = "evaluate"
    /\ pc' = "done"
    /\ stop_evt' = TRUE
    /\ UNCHANGED <<other_vars, loop_vars, exec_vars, reload_vars>>

InitReload ==
    /\ pc = "tick"
    /\ self_ip \in IPS
    /\ MAX_ITERS = 0
    /\ it = 0
    /\ rounds = 0
    /\ is_self = TRUE
    /\ optimal_ip = NONE
    /\ will_move = FALSE
    /\ raised = FALSE
    /\ init_failures = 0
    /\ clock = 0
    /\ logger = [buffer |-> << >>,
                 csv |-> [exists |-> FALSE, header |-> FALSE, rows |-> << >>,
                          appends |-> 0]]
    /\ snapshot_exists = TRUE
    /\ scp_calls = << >>
    /\ move_cmds = << >>
    /\ timing_rows = << >>
    /\ ok = 0
    /\ metrics_rows = << >>
    /\ stop_evt = FALSE
    /\ cur_f = 0
    /\ candidate = NONE
    /\ evaluated = "-"
    /\ worker_started = TRUE
    /\ TrainIdle
    /\ ToolsIdle
    /\ ReloadInit
    /\ CostIdle

ReloadNext ==
    \/ AdvanceTime
    \/ \E v \in Sigs : SetSig(v)
    \/ Poll
    \/ \E ctor_ok \in BOOLEAN : CtorDone(ctor_ok)
    \/ SetAcquire
    \/ SetAssign
    \/ MarkLoaded
    \/ WorkerStop
    \/ GetAcquire
    \/ GetReturn
    \/ TickKeeps
    \/ LoopExit

SpecReload == InitReload /\ [][ReloadNext]_vars

(***************************************************************************)
(* train.run_train writing the artifact files while the ReloadWorker polls *)
(* them and Forecaster.__init__ reads them.  The signature has one entry   *)
(* per file, here the number of the training run that wrote the file last; *)
(* each file is written and read as a whole.                               *)
(***************************************************************************)
MaxRuns == 1

\* ModelReloader._signature of files all written by training run r
Files(r) == [model |-> r, scaler |-> r, meta |-> r]

\* train.py, line 138: model.save(model_path) of the next training run
TrainSaveModel ==
    /\ train_pc = "idle"
    /\ runs < MaxRuns
    /\ sig' = [sig EXCEPT !.model = runs + 1]
    /\ train_pc' = "model_saved"
    /\ last_write_ts' = now
    /\ UNCHANGED <<cost_vars, retry_due, candidate, evaluated,
                   worker_started, tool_vars,
                   runs, main_vars, exec_vars, holder_vars, worker_vars, now,
                   history_vars>>

\* train.py, line 139: dump(scaler, scaler_path)
TrainDumpScaler ==
    /\ train_pc = "model_saved"
    /\ sig' = [sig EXCEPT !.scaler = runs + 1]
    /\ train_pc' = "scaler_dumped"
    /\ last_write_ts' = now
    /\ UNCHANGED <<cost_vars, retry_due, candidate, evaluated,
                   worker_started, tool_vars,
                   runs, main_vars, exec_vars, holder_vars, worker_vars, now,
                   history_vars>>

\* train.py, lines 140-141: the metadata file is written; the run is over
TrainWriteMeta ==
    /\ train_pc = "scaler_dumped"
    /\ sig' = [sig EXCEPT !.meta = runs + 1]
    /\ train_pc' = "idle"
    /\ runs' = runs + 1
    /\ last_write_ts' = now
    /\ UNCHANGED <<cost_vars, retry_due, candidate, evaluated,
                   worker_started, tool_vars,
                   main_vars, exec_vars, holder_vars, worker_vars, now,
                   history_vars>>

\* Forecaster.__init__ reading one artifact file: the forecaster under
\* construction takes the file as it is now
LoadFile(file, next_wpc) ==
    /\ forecasters' = [forecasters EXCEPT ![Len(forecasters)].built_from[file]
                          = sig[file]]
    /\ wpc' = next_wpc
    /\ UNCHANGED <<other_vars, main_vars, exec_vars, holder_f, lock, last_sig,
                   last_seen_change_ts, wait_start, fnew, env_vars,
                   history_vars>>

\* forecaster.py, line 16: load_model(model_path)
LoadModel ==
    /\ wpc = "ctor"
    /\ LoadFile("model", "ctor_scaler")

\* forecaster.py, line 17: joblib_load(scaler_path)
LoadScaler ==
    /\ wpc = "ctor_scaler"
    /\ LoadFile("scaler", "ctor_meta")

\* forecaster.py, lines 18-22, and ReloadWorker.run, line 128: the metadata
\* is read and the constructor returns the new forecaster
LoadMeta ==
    /\ wpc = "ctor_meta"
    /\ forecasters' = [forecasters EXCEPT ![Len(forecasters)] =
                          [@ EXCEPT !.status = "ok",
                                    !.built_from.meta = sig.meta]]
    /\ fnew' = Len(forecasters)
    /\ wpc' = "set"
    /\ UNCHANGED <<other_vars, main_vars, exec_vars, holder_f, lock, last_sig,
                   last_seen_change_ts, wait_start, env_vars, history_vars>>

InitTrain ==
    /\ pc = "tick"
    /\ self_ip \in IPS
    /\ MAX_ITERS = 0
    /\ it = 0
    /\ rounds = 0
    /\ is_self = TRUE
    /\ optimal_ip = NONE
    /\ will_move = FALSE
    /\ raised = FALSE
    /\ init_failures = 0
    /\ clock = 0
    /\ logger = [buffer |-> << >>,
                 csv |-> [exists |-> FALSE, header |-> FALSE, rows |-> << >>,
                          appends |-> 0]]
    /\ snapshot_exists = TRUE
    /\ scp_calls = << >>
    /\ move_cmds = << >>
    /\ timing_rows = << >>
    /\ ok = 0
    /\ metrics_rows = << >>
    /\ stop_evt = FALSE
    /\ cur_f = 0
    /\ candidate = NONE
    /\ evaluated = "-"
    /\ worker_started = TRUE
    /\ TrainIdle
    /\ ToolsIdle
    /\ forecasters = <<[status |-> "ok", built_from |-> Files(0),
                        observed |-> Files(0)]>>
    /\ holder_f = 1
    /\ lock = "free"
    /\ now = 1
    /\ sig = Files(0)
    /\ last_sig = Files(0)
    /\ last_seen_change_ts = 0
    /\ wpc = "wait"
    /\ wait_start = 1
    /\ fnew = 0
    /\ triggers = 0
    /\ reloads = 0
    /\ ctor_failed = FALSE
    /\ sig_changes = 0
    /\ scenario = "none"
    /\ first_poll_ts = 0
    /\ last_poll_ts = 0
    /\ retry_due = FALSE
    /\ CostIdle

TrainNext ==
    \/ AdvanceTime
    \/ TrainSaveModel
    \/ TrainDumpScaler
    \/ TrainWriteMeta
    \/ Poll
    \/ LoadModel
    \/ LoadScaler
    \/ LoadMeta
    \/ SetAcquire
    \/ SetAssign
    \/ MarkLoaded

SpecTrain == InitTrain /\ [][TrainNext]_vars

\* C2: the forecaster the holder publishes, and the one get() returned to
\* the control loop, is the first forecaster or one whose constructor
\* returned; never one under construction or one whose construction failed.
C2_GetReturnsConstructed ==
    /\ forecasters[holder_f].status = "ok"
    /\ cur_f # 0 => forecasters[cur_f].status = "ok"

\* C2 witness: get() returned a reloaded forecaster after a failed reload
C2_Witness ==
    /\ cur_f > 1
    /\ \E i \in 1..Len(forecasters) : forecasters[i].status = "failed"

\* C3: when the signature has changed once and stayed, the worker reloads
\* at most once, and exactly once (new signature loaded) as soon as two
\* polls at least debounce_sec apart have run since the change with the
\* construction succeeding, however many polls follow; when the signature
\* has changed and gone back to the loaded one before that, no reload is
\* ever triggered.
C3_Debounce ==
    /\ scenario = "none" => triggers = 0 /\ reloads = 0
    /\ (scenario = "changed" /\ ~ctor_failed) => triggers <= 1 /\ reloads <= 1
    /\ ( /\ scenario = "changed"
         /\ ~ctor_failed
         /\ first_poll_ts > 0
         /\ last_poll_ts - first_poll_ts >= debounce_sec
         /\ wpc \in {"wait", "stopped"} )
       => triggers = 1 /\ reloads = 1 /\ last_sig = sig /\ holder_f = 2
    /\ scenario = "reverted" =>
          triggers = 0 /\ reloads = 0 /\ holder_f = 1 /\ last_sig = sig

\* C3 witness: one change, one reload, and a further poll after the reload
C3_Witness ==
    /\ scenario = "changed"
    /\ reloads = 1
    /\ ~ctor_failed
    /\ wpc = "wait"
    /\ last_poll_ts - first_poll_ts >= 2 * interval_sec

\* C3, second case reached: changed, seen by a poll, reverted inside the
\* window, polled again
C3_WitnessReverted ==
    /\ scenario = "reverted"
    /\ last_seen_change_ts = 0
    /\ now >= 2 * interval_sec

(***************************************************************************)
(* The cost models as pure functions: a List[Domain] is given to the two   *)
(* find_optimal_leader; every candidate is scored as their loops score it. *)
(***************************************************************************)
\* the replicas of the lists: one node of each known address
CostNodes == TrainedNodes
Weights == 1..MaxWeight
Loads == 0..MaxLoad

\* the orders in which distinct replicas can be listed
Orders ==
    {o \in UNION {[1..k -> CostNodes] : k \in 0..Cardinality(CostNodes)} :
        \A i, j \in DOMAIN o : o[i] = o[j] => i = j}

\* the replicas o in their order, with the weights and loads p:
\* p[i] = <<nodes, read_requests, write_requests>>
ReplicaList(o, p) ==
    [i \in DOMAIN o |->
       Domain(o[i], node_id_to_ip[o[i]], p[i][1], p[i][2], p[i][3])]

\* A(read=10, write=5), B(read=2, write=1), C(read=1, write=1) at the
\* addresses whose latencies are A-B = 30, A-C = 40, B-C = 50
Fixture ==
    << Domain("933ca51d2bb602b8", "192.168.0.38", 1, 10, 5),
       Domain("b92b49a4de72942d", "192.168.0.82", 1, 2, 1),
       Domain("69f554c3f7f50a72", "192.168.0.223", 1, 1, 1) >>

InitCost ==
    /\ cpc = "input"
    /\ \/ \E o \in Orders :
            \E p \in [DOMAIN o -> Weights \X Loads \X Loads] :
               domains = ReplicaList(o, p)
       \/ domains = Fixture
    /\ scores = NoScores
    /\ pl_result = NoResult
    /\ ml_result = NoResult
    /\ pc = "idle"
    /\ MAX_ITERS = 0
    /\ self_ip = "192.168.0.38"
    /\ it = 0
    /\ rounds = 0
    /\ is_self = TRUE
    /\ optimal_ip = NONE
    /\ will_move = FALSE
    /\ raised = FALSE
    /\ init_failures = 0
    /\ clock = 0
    /\ logger = [buffer |-> << >>,
                 csv |-> [exists |-> FALSE, header |-> FALSE, rows |-> << >>,
                          appends |-> 0]]
    /\ snapshot_exists = TRUE
    /\ scp_calls = << >>
    /\ move_cmds = << >>
    /\ timing_rows = << >>
    /\ ok = 0
    /\ metrics_rows = << >>
    /\ stop_evt = FALSE
    /\ cur_f = 0
    /\ candidate = NONE
    /\ evaluated = "-"
    /\ worker_started = TRUE
    /\ TrainIdle
    /\ ToolsIdle
    /\ ReloadInit

\* the total of a candidate as moveleader.find_optimal_leader has it: none
\* for a candidate it skips (lines 240-244), else line 249
ScoreTotal(leader_candidate, ds) ==
    LET commit_latency ==
            calculate_commit_latency(leader_candidate, ds, quorum_size(ds))
    IN  IF commit_latency.inf THEN Inf
        ELSE Fin(moveleader_calculate_total_latency(leader_candidate, ds,
                                                    commit_latency.v))

\* the quorum size and, per candidate of ds, the commit latency and the
\* totals of the two models
Scores(ds) ==
    [quorum_size |-> quorum_size(ds),
     commit |-> [i \in 1..Len(ds) |->
                   calculate_commit_latency(ds[i], ds, quorum_size(ds))],
     total |-> [i \in 1..Len(ds) |-> ScoreTotal(ds[i], ds)],
     simple |-> [i \in 1..Len(ds) |-> calculate_total_latency(ds[i], ds)]]

\* the body of the two loops run for every candidate: moveleader.py lines
\* 224-225 and 236-251, predict_leader.py lines 256-257 and 262-264
Score ==
    /\ cpc = "input"
    /\ scores' = Scores(domains)
    /\ cpc' = "scored"
    /\ UNCHANGED <<domains, pl_result, ml_result, main_vars, exec_vars,
                   reload_vars, retry_due, candidate, evaluated,
                   worker_started, train_vars, tool_vars>>

\* moveleader.py: calculator.find_optimal_leader(domains)
MoveLeaderFind ==
    /\ cpc = "scored"
    /\ ~ml_result.called
    /\ ml_result' = moveleader_find_optimal_leader(domains)
    /\ UNCHANGED <<cpc, domains, scores, pl_result, main_vars, exec_vars,
                   reload_vars, retry_due, candidate, evaluated,
                   worker_started, train_vars, tool_vars>>

\* predict_leader.py: calc.find_optimal_leader(domains)
PredictLeaderFind ==
    /\ cpc = "scored"
    /\ ~pl_result.called
    /\ pl_result' = predict_leader_result(domains)
    /\ UNCHANGED <<cpc, domains, scores, ml_result, main_vars, exec_vars,
                   reload_vars, retry_due, candidate, evaluated,
                   worker_started, train_vars, tool_vars>>

CostNext ==
    \/ Score
    \/ MoveLeaderFind
    \/ PredictLeaderFind

SpecCost == InitCost /\ [][CostNext]_vars

Candidates == 1..Len(domains)
Feasible == {i \in Candidates : ~scores.commit[i].inf}
AllWeightOne == \A i \in Candidates : domains[i].nodes = 1

\* the first candidate, in the order of the list, whose quorum total is
\* the least of the feasible candidates' (0: there is none)
FirstMinTotal ==
    IF Feasible = {} THEN 0
    ELSE CHOOSE i \in Feasible :
           /\ \A j \in Feasible : scores.total[i].v <= scores.total[j].v
           /\ \A j \in Feasible : j < i => scores.total[j].v > scores.total[i].v

\* the first candidate whose point-to-point total is the least (0: none)
FirstMinSimple ==
    IF Candidates = {} THEN 0
    ELSE CHOOSE i \in Candidates :
           /\ \A j \in Candidates : scores.simple[i] <= scores.simple[j]
           /\ \A j \in Candidates : j < i => scores.simple[j] > scores.simple[i]

\* C11: for every list of replicas of voting weight 1, the leader returned
\* by predict_leader.py's find_optimal_leader is the first candidate whose
\* quorum total T(L) = sum_i read_i * d(L, i) + W(L) * sum_i write_i is the
\* least, the leader moveleader.py's find_optimal_leader returns.
C11_SimpleAgreesWithQuorum ==
    (pl_result.called /\ ml_result.called /\ domains # << >> /\ AllWeightOne)
    => /\ pl_result.leader = domains[FirstMinTotal]
       /\ pl_result.leader = ml_result.leader

\* C12 as stated: for the fixture A(10, 5), B(2, 1), C(1, 1) the quorum is
\* 2, W(A) = 30 and T(A) = 320, and the candidate of least T is returned.
C12_FixtureAsStated ==
    (domains = Fixture /\ ml_result.called)
    => /\ scores.quorum_size = 2
       /\ scores.commit[1] = Fin(30)
       /\ scores.total[1] = Fin(320)
       /\ ml_result.leader = domains[FirstMinTotal]

\* C12 amended: for the fixture the quorum is 2, W(A) = 30 and
\* T(A) = 2 * 30 + 1 * 40 + 30 * (5 + 1 + 1) = 310, T(B) = 560 and
\* T(C) = 780, and A, the candidate of least T, is returned with T(A).
C12_FixtureCosts ==
    (domains = Fixture /\ cpc = "scored")
    => /\ scores.quorum_size = 2
       /\ scores.commit[1] = Fin(30)
       /\ scores.total = <<Fin(310), Fin(560), Fin(780)>>
       /\ ml_result.called =>
            /\ ml_result.shape = "(leader, cost)"
            /\ ml_result.leader = Fixture[1]
            /\ ml_result.cost = 310

\* C12 witness: the fixture has been scored and a leader returned for it
C12_Witness ==
    /\ domains = Fixture
    /\ ml_result.called
    /\ ml_result.leader.id = "933ca51d2bb602b8"

\* C13: when quorum_size - 1 exceeds the number of other replicas for
\* every candidate, each find_optimal_leader returns the pair (None, None).
C13_AllInfeasibleNone ==
    (pl_result.called /\ ml_result.called /\ domains # << >>
       /\ Feasible = {})
    => /\ ml_result.shape = "(None, None)"
       /\ pl_result.shape = "(None, None)"

\* C14: each find_optimal_leader returns no leader only for the empty list
\* or when every candidate is infeasible; when a candidate is feasible it
\* returns a member of the list with that member's total; for the empty
\* list it returns the pair (None, None).
C14_NoLeaderOnlyIfNone ==
    (pl_result.called /\ ml_result.called)
    => /\ ml_result.leader = NoDomain => (domains = << >> \/ Feasible = {})
       /\ pl_result.leader = NoDomain => (domains = << >> \/ Feasible = {})
       /\ Feasible # {} =>
            /\ ml_result.shape = "(leader, cost)"
            /\ \E i \in Feasible : /\ ml_result.leader = domains[i]
                                   /\ ml_result.cost = scores.total[i].v
            /\ pl_result.shape = "(leader, cost)"
            /\ \E i \in Candidates : /\ pl_result.leader = domains[i]
                                     /\ pl_result.cost = scores.simple[i]
       /\ domains = << >> =>
            /\ ml_result.shape = "(None, None)"
            /\ pl_result.shape = "(None, None)"

\* C15: when several feasible candidates have the least total, each
\* find_optimal_leader returns the one that comes first in the list.
C15_TieFirstInOrder ==
    /\ (pl_result.called /\ domains # << >>)
       => pl_result.leader = domains[FirstMinSimple]
    /\ (ml_result.called /\ Feasible # {})
       => ml_result.leader = domains[FirstMinTotal]

\* C15 witness: the first two candidates have the same total, positive and
\* less than the third's, in both models, and both have returned
C15_Witness ==
    /\ pl_result.called
    /\ ml_result.called
    /\ Len(domains) = 3
    /\ scores.simple[1] = scores.simple[2]
    /\ scores.simple[1] > 0
    /\ scores.simple[3] > scores.simple[1]
    /\ Feasible = Candidates
    /\ scores.total[1] = scores.total[2]
    /\ scores.total[1].v > 0
    /\ scores.total[3].v > scores.total[1].v
    /\ pl_result.leader = domains[1]
    /\ ml_result.leader = domains[1]

\* the list ds in the order pi
Permuted(ds, pi) == [i \in 1..Len(ds) |-> ds[pi[i]]]

\* C16: the commit latency W(L) and the totals T(L) of every candidate are
\* what they are for the list in any other order; so is the least total
\* returned, and the leader returned when no other candidate has its total.
C16_PermutationInvariant ==
    (pl_result.called /\ ml_result.called) =>
      \A pi \in Permutations(Candidates) :
        LET pd == Permuted(domains, pi)
            ps == Scores(pd)
        IN  /\ ps.quorum_size = scores.quorum_size
            /\ \A i \in Candidates :
                 /\ ps.commit[i] = scores.commit[pi[i]]
                 /\ ps.total[i] = scores.total[pi[i]]
                 /\ ps.simple[i] = scores.simple[pi[i]]
            /\ LET r == moveleader_find_optimal_leader(pd)
               IN  /\ r.shape = ml_result.shape
                   /\ r.cost = ml_result.cost
                   /\ (\A i, j \in Feasible :
                         scores.total[i] = scores.total[j] => i = j)
                      => r.leader = ml_result.leader
            /\ LET r == predict_leader_result(pd)
               IN  /\ r.shape = pl_result.shape
                   /\ r.cost = pl_result.cost
                   /\ (\A i, j \in Candidates :
                         scores.simple[i] = scores.simple[j] => i = j)
                      => r.leader = pl_result.leader

\* C16 witness: three replicas under load, the quorum needing one follower,
\* the first candidate's two followers at different latencies with the
\* nearer one listed last; both models have returned
C16_Witness ==
    /\ pl_result.called
    /\ ml_result.called
    /\ Len(domains) = 3
    /\ scores.quorum_size = 2
    /\ \A i \in Candidates : domains[i].write_requests > 0
    /\ get_latency(domains[1].address, domains[3].address)
         < get_latency(domains[1].address, domains[2].address)
    /\ scores.commit[1]
         = Fin(get_latency(domains[1].address, domains[3].address))

\* the sum of the voting weights of the list
RECURSIVE WeightSum(_)
WeightSum(S) ==
    IF S = {} THEN 0
    ELSE LET i == CHOOSE i \in S : TRUE
         IN  domains[i].nodes + WeightSum(S \ {i})

\* C17: for every non-empty list of replicas of positive voting weight the
\* quorum size is floor(sum of the weights / 2) + 1: it is at least 1, it
\* is a majority of the weights, and no smaller number is.
C17_QuorumSize ==
    (cpc = "scored" /\ domains # << >>)
    => LET q == scores.quorum_size
           t == WeightSum(Candidates)
       IN  /\ q >= 1
           /\ 2 * q > t
           /\ 2 * (q - 1) <= t
           /\ t % 2 = 0 => q = t \div 2 + 1
           /\ t % 2 = 1 => q = (t + 1) \div 2

\* C17 witness: lists of an odd and of an even total weight above the
\* number of replicas have their quorum computed
C17_Witness ==
    /\ cpc = "scored"
    /\ Len(domains) = 2
    /\ WeightSum(Candidates) = 3
    /\ scores.quorum_size = 2

\* C18: a tick decides keep exactly when the cost model returned no
\* candidate (or was not reached) or the candidate's address is the local
\* replica's; in every other case it decides migrate and the target is the
\* candidate's address.
C18_Decide ==
    pc \in {"keep", "exec_scp"} =>
       LET keep == candidate = NONE \/ candidate = self_ip
       IN  /\ keep <=> (~will_move /\ pc = "keep")
           /\ ~keep <=> (will_move /\ pc = "exec_scp")
           /\ ~keep => optimal_ip = candidate

\* C18 witness: a tick whose candidate was another replica has decided
\* migrate after a tick that decided keep
C18_Witness ==
    /\ pc = "exec_scp"
    /\ will_move
    /\ candidate \in IPS \ {self_ip}
    /\ optimal_ip = candidate
    /\ it = 2

\* C19: once the worker has published a reloaded forecaster and marked it
\* loaded, last_sig is the signature that the poll which triggered that
\* reload observed, whatever the artifact files did during the reload.
C19_LoadedSigIsObserved ==
    (holder_f > 1 /\ wpc # "mark")
    => last_sig = forecasters[holder_f].observed

\* C20: a failed construction leaves the published forecaster, last_sig
\* and last_seen_change_ts as they were and the worker waiting for its
\* next poll; and the first poll after it, the signature still differing
\* from last_sig, starts a construction again.
C20_FailedReloadRetried ==
    [][ /\ CtorDone(FALSE) =>
             /\ UNCHANGED <<holder_f, last_sig, last_seen_change_ts, fnew>>
             /\ forecasters'[holder_f'] = forecasters[holder_f]
             /\ wpc' = "wait"
        /\ (retry_due /\ Poll /\ sig # last_sig) =>
             /\ wpc' = "ctor"
             /\ triggers' = triggers + 1
             /\ UNCHANGED last_seen_change_ts
      ]_vars

\* C20 witness: the files changed once; the construction of the first
\* reload failed, the next poll started a second one, and its forecaster
\* is published
C20_Witness ==
    /\ sig_changes = 1
    /\ Len(forecasters) = 3
    /\ forecasters[2].status = "failed"
    /\ forecasters[3].status = "ok"
    /\ holder_f = 3
    /\ triggers = 2
    /\ wpc = "wait"

\* C21: a poll triggers a reload only if last_seen_change_ts is set, at
\* least debounce_sec have passed since and the signature differs from
\* last_sig; last_seen_change_ts is set only by a poll that sights a
\* difference with none pending, and that poll triggers nothing; a poll
\* that sees the signature equal to last_sig clears it and triggers
\* nothing, so every poll since it was set has seen a difference.
C21_TriggerOnlyAfterDebounce ==
    [][ /\ Poll =>
             /\ wpc' = "ctor" =>
                  /\ last_seen_change_ts # 0
                  /\ now - last_seen_change_ts >= debounce_sec
                  /\ sig # last_sig
                  /\ UNCHANGED last_seen_change_ts
             /\ last_seen_change_ts = 0 => wpc' # "ctor"
             /\ sig = last_sig => (last_seen_change_ts' = 0 /\ wpc' # "ctor")
             /\ last_seen_change_ts' # 0 => sig # last_sig
        /\ (last_seen_change_ts' # last_seen_change_ts
              /\ last_seen_change_ts' # 0) =>
             /\ Poll
             /\ last_seen_change_ts = 0
             /\ last_seen_change_ts' = now
      ]_vars

\* C21 witness: a poll sighted a difference, a later poll at least
\* debounce_sec after it has triggered the construction of a forecaster
C21_Witness ==
    /\ triggers = 1
    /\ wpc = "ctor"
    /\ sig # last_sig
    /\ last_seen_change_ts # 0
    /\ now - last_seen_change_ts >= debounce_sec

\* C23: the worker holds the holder's lock only between taking it in set()
\* and the assignment of the reference, never while a forecaster is being
\* constructed; a get() that returns while a construction is in flight
\* returns the forecaster published before it, a complete one.
C23_LockOnlyForAssignment ==
    [][ /\ lock' = "worker" => wpc' = "set_locked"
        /\ wpc' = "ctor" => lock' # "worker"
        /\ (GetReturn /\ wpc = "ctor") =>
             /\ cur_f' = holder_f
             /\ cur_f' < Len(forecasters)
             /\ forecasters[cur_f'].status = "ok"
      ]_vars

\* C23 witness: the control loop is inside get() while the worker is
\* constructing a new forecaster
C23_Witness ==
    /\ wpc = "ctor"
    /\ pc = "get_locked"
    /\ lock = "main"
    /\ forecasters[Len(forecasters)].status = "building"
    /\ holder_f < Len(forecasters)

\* C24: no artifact change is permanently missed.  Once the worker waits
\* with last_sig equal to the signature of the files and nothing pending,
\* no later poll of unchanged files triggers a reload, so the published
\* forecaster must by then be one built from the files as they are, when
\* no construction has failed.
C24_NoChangeMissed ==
    (~ctor_failed /\ wpc = "wait" /\ last_sig = sig
                  /\ last_seen_change_ts = 0)
        => forecasters[holder_f].built_from = sig

\* C26: the first tick never runs without a started ReloadWorker: once the
\* control loop has run a tick, reload_worker.start() has returned.
C26_TickOnlyWithWorker == it >= 1 => worker_started

\* C27 as stated: after a tick whose forecast was empty or gave the Load
\* Projector no replica, the loop always goes on to the next tick.
C27_NextTickAlways ==
    [][(pc = "keep" /\ evaluated \in {"empty", "no_domains"})
          => pc' = "tick"]_vars

\* C27 amended: a tick whose forecast is empty or gives the Load Projector
\* no replica returns before the cost model is called: its decision is
\* keep with no target and no migration step is taken; the loop then goes
\* on to the next tick, unless an iteration cap is configured and reached,
\* in which case it ends as after any keep.
C27_NoReplicaIsKeep ==
    /\ [](evaluated \in {"empty", "no_domains"} =>
            /\ ~raised
            /\ ~will_move /\ is_self /\ optimal_ip = NONE
            /\ candidate = NONE
            /\ pc \in {"keep", "tick", "done"}
            /\ scp_calls = << >> /\ move_cmds = << >>)
    /\ [][(pc = "keep" /\ evaluated \in {"empty", "no_domains"}) =>
            \/ pc' = "tick"
            \/ MAX_ITERS > 0 /\ it >= MAX_ITERS /\ pc' = "done"]_vars

\* C27 witness: a forecast that was not empty gave the Load Projector no
\* replica, the tick was recorded as keep and the next tick is due
C27_Witness ==
    /\ evaluated = "no_domains"
    /\ pc = "tick"
    /\ it = 1
    /\ logger.buffer # << >>
    /\ ~will_move

\* C30: the executor runs only for a target that is an address other than
\* the local replica's, the one the cost model returned to this tick; after
\* a tick that raised or got no candidate no step of the executor is taken.
C30_ExecutorOnlyForOtherTarget ==
    /\ pc \in {"exec_scp", "exec_move", "exec_remove"} =>
          /\ optimal_ip # NONE
          /\ optimal_ip # self_ip
          /\ optimal_ip = candidate
          /\ ~raised
    /\ \A i \in DOMAIN scp_calls :
          scp_calls[i] # NONE /\ scp_calls[i] # self_ip
    /\ (raised \/ candidate = NONE) =>
          /\ pc \notin {"exec_scp", "exec_move", "exec_remove", "metrics"}
          /\ scp_calls = << >>
          /\ move_cmds = << >>

\* C30 witness: after a tick that decided keep, a tick decided migrate and
\* the executor has copied the snapshot to a replica other than the local
C30_Witness ==
    /\ pc = "exec_move"
    /\ it = 2
    /\ scp_calls = <<optimal_ip>>
    /\ optimal_ip \in IPS \ {self_ip}

\* C28: an executor copies the snapshot, then issues the transfer command,
\* then deletes the local snapshot: the copy is attempted with no command
\* issued yet, the command is issued only from the position reached by a
\* copy that succeeded, the snapshot is deleted only after the command,
\* and neither the copy nor the command is attempted twice.
C28_CopyThenCommandThenDelete ==
    /\ [](/\ Len(scp_calls) <= 1
          /\ Len(move_cmds) <= 1
          /\ move_cmds # << >> => scp_calls # << >>)
    /\ [][ /\ scp_calls' # scp_calls =>
                /\ scp_calls = << >> /\ move_cmds = << >>
                /\ snapshot_exists
           /\ (pc' \in {"exec_move", "ml_move"} /\ pc' # pc) =>
                /\ ScpToHost(TRUE) \/ moveleader_ScpToHost(TRUE)
                /\ Len(scp_calls') = 1
           /\ move_cmds' # move_cmds =>
                /\ pc \in {"exec_move", "ml_move"}
                /\ move_cmds = << >>
                /\ snapshot_exists
           /\ snapshot_exists' # snapshot_exists =>
                /\ pc \in {"exec_remove", "ml_remove"}
                /\ ~snapshot_exists'
                /\ Len(move_cmds) = 1
         ]_vars

\* C28 witness: the executor of predict_leader.py has copied the snapshot
\* once, issued one command and deleted the local snapshot
C28_Witness ==
    /\ pc = "metrics"
    /\ Len(scp_calls) = 1
    /\ Len(move_cmds) = 1
    /\ ~snapshot_exists
    /\ ok = 1

\* C29: every transfer command an executor has issued for a target other
\* than the current leader is addressed to the current leader's endpoint,
\* and names the identity that IpToId gives for the target's endpoint.
C29_AddressedToCurrentLeader ==
    \A i \in DOMAIN move_cmds :
       (optimal_ip # self_ip /\ (optimal_ip \o ":2379") \in DOMAIN IpToId) =>
          /\ move_cmds[i].endpoints = self_ip \o ":2379"
          /\ move_cmds[i].target = IpToId[optimal_ip \o ":2379"]

\* C22: changed_and_stable returns True only when the signature differs
\* from the loaded one and no artifact file has been written for at least
\* debounce_sec seconds.
C22_TrueOnlyWhenStable ==
    [][(Poll /\ wpc' = "ctor") =>
          /\ sig # last_sig
          /\ now - last_write_ts >= debounce_sec]_vars

\* C25: every forecaster the ReloadWorker has published was built from a
\* model file, a scaler file and a metadata file of one training run.
C25_PublishedFromOneRun ==
    holder_f > 1 =>
       LET b == forecasters[holder_f].built_from
       IN  b.model = b.scaler /\ b.scaler = b.meta

\* C31: for an attempt whose transfer command failed the executor never
\* returns the success value 1, on which main logs the migration as done.
C31_FailedTransferNotReportedDone ==
    (move_cmds # << >> /\ timing_rows # <<"success">>) => ok # 1

\* the positions of main inside check_and_transfer_leader and after it
ExecutorPositions == {"exec_scp", "exec_move", "exec_remove", "metrics"}

\* C32: once a tick has decided to migrate, every decision of the run,
\* the migrate decision included, is in the file before the executor acts:
\* no copy and no transfer command is issued while a decision is buffered.
C32_PersistedBeforeExecutor ==
    (pc \in ExecutorPositions \/ scp_calls # << >> \/ move_cmds # << >>) =>
        /\ logger.buffer = << >>
        /\ Len(logger.csv.rows) = it
        /\ logger.csv.rows[it] = <<clock, optimal_ip>>

C32_Witness ==
    /\ pc = "exec_scp"
    /\ scp_calls = << >>
    /\ it = 2
    /\ Len(logger.csv.rows) = 2
    /\ logger.csv.appends = 1
    /\ logger.buffer = << >>

\* the decisions recorded so far, in the file or still in the buffer
Recorded == logger.csv.rows \o logger.buffer

\* C34: every tick records one decision; it carries the local address when
\* the tick keeps (also after an exception or an empty forecast) and the
\* target's address when it migrates, and the executor is given the address
\* that the migrate decision was logged with.
C34_LoggedAddressIsDecision ==
    /\ Len(Recorded) = it
    /\ \A i \in 1..Len(Recorded) :
          Recorded[i][2] = IF i = it /\ will_move THEN optimal_ip ELSE self_ip
    /\ will_move => optimal_ip \notin {self_ip, NONE}
    /\ \A i \in 1..Len(scp_calls) : scp_calls[i] = Recorded[it][2]
    /\ \A i \in 1..Len(move_cmds) :
          move_cmds[i] = MoveCommand(self_ip, Recorded[it][2])

C34_Witness ==
    /\ pc = "exec_remove"
    /\ it = 3
    /\ Recorded[1][2] = self_ip
    /\ Recorded[2][2] = self_ip
    /\ Recorded[3][2] # self_ip
    /\ scp_calls = <<Recorded[3][2]>>
    /\ Len(move_cmds) = 1

(***************************************************************************)
(* One BufferedPredictedLeaderWriter under any sequence of record and      *)
(* flush_remaining calls.  it counts the calls of record; the wall clock   *)
(* advances between two of them, so that a row names the call it is from.  *)
(***************************************************************************)
\* calls of record that are explored
MaxRecords == 3

InitLogger ==
    /\ pc = "logger"
    /\ MAX_ITERS = 0
    /\ self_ip = "192.168.0.38"
    /\ it = 0
    /\ rounds = 0
    /\ is_self = TRUE
    /\ optimal_ip = NONE
    /\ will_move = FALSE
    /\ raised = FALSE
    /\ init_failures = 0
    /\ clock = 0
    /\ logger \in {[buffer |-> << >>,
                    csv |-> [exists |-> e, header |-> e, rows |-> << >>,
                             appends |-> 0]] : e \in BOOLEAN}
    /\ snapshot_exists = TRUE
    /\ scp_calls = << >>
    /\ move_cmds = << >>
    /\ timing_rows = << >>
    /\ ok = 0
    /\ metrics_rows = << >>
    /\ stop_evt = FALSE
    /\ cur_f = 0
    /\ candidate = NONE
    /\ evaluated = "-"
    /\ worker_started = TRUE
    /\ TrainIdle
    /\ ToolsIdle
    /\ ReloadInit
    /\ CostIdle

\* logger.record(leader_ip, will_move)
LogRecord(leader_ip, move) ==
    /\ pc \in {"logger", "recorded", "flushed"}
    /\ it < MaxRecords
    /\ logger' = record(logger, leader_ip, move, clock)
    /\ pc' = IF move THEN "flushed" ELSE "recorded"
    /\ it' = it + 1
    /\ clock' = clock + 1
    /\ UNCHANGED <<other_vars, MAX_ITERS, self_ip, rounds, is_self, optimal_ip,
                   will_move, raised, init_failures, cur_f, stop_evt,
                   exec_vars, reload_vars>>

\* logger.flush_remaining()
LogFlush ==
    /\ pc \in {"logger", "recorded", "flushed"}
    /\ logger' = flush_remaining(logger)
    /\ pc' = "flushed"
    /\ UNCHANGED <<other_vars, MAX_ITERS, self_ip, it, rounds, is_self,
                   optimal_ip, will_move, raised, init_failures, clock, cur_f,
                   stop_evt, exec_vars, reload_vars>>

LoggerNext ==
    \/ \E leader_ip \in IPS, move \in BOOLEAN : LogRecord(leader_ip, move)
    \/ LogFlush

SpecLogger == InitLogger /\ [][LoggerNext]_vars

\* C33: the rows in the file followed by the buffered ones are the recorded
\* decisions, each once and in recording order, so no decision is persisted
\* twice or out of order; after a flush (by record on a migrate decision or
\* by flush_remaining) the buffer is empty, and the file is written at most
\* once per recorded decision: a flush with nothing recorded writes nothing.
C33_EachDecisionOnceInOrder ==
    /\ Len(Recorded) = it
    /\ \A i \in 1..Len(Recorded) : Recorded[i][1] = i - 1
    /\ pc = "flushed" => logger.buffer = << >>
    /\ logger.csv.appends <= it
    /\ logger.csv.appends > 0 => logger.csv.rows # << >>

C33_Witness ==
    /\ pc = "flushed"
    /\ it = 3
    /\ logger.csv.appends = 2
    /\ Len(logger.csv.rows) = 3

(***************************************************************************)
(* The Load Projector followed by the cost models: a forecast is projected *)
(* to a List[Domain] as run_once_and_decide does at line 390, and the list *)
(* is given to the two find_optimal_leader.                                *)
(***************************************************************************)
InitProject ==
    /\ cpc = "project"
    /\ forecast \in Forecasts
    /\ domains = << >>
    /\ scores = NoScores
    /\ pl_result = NoResult
    /\ ml_result = NoResult
    /\ pc = "idle"
    /\ MAX_ITERS = 0
    /\ self_ip \in IPS
    /\ it = 0
    /\ rounds = 0
    /\ is_self = TRUE
    /\ optimal_ip = NONE
    /\ will_move = FALSE
    /\ raised = FALSE
    /\ init_failures = 0
    /\ clock = 0
    /\ logger = [buffer |-> << >>,
                 csv |-> [exists |-> FALSE, header |-> FALSE, rows |-> << >>,
                          appends |-> 0]]
    /\ snapshot_exists = TRUE
    /\ scp_calls = << >>
    /\ move_cmds = << >>
    /\ timing_rows = << >>
    /\ ok = 0
    /\ metrics_rows = << >>
    /\ stop_evt = FALSE
    /\ cur_f = 0
    /\ candidate = NONE
    /\ evaluated = "-"
    /\ worker_started = TRUE
    /\ TrainIdle
    /\ latency_calls = << >>
    /\ UpdateIdle
    /\ PlanIdle
    /\ ReloadInit

\* run_once_and_decide, line 390: calc.build_domains_from_pred_mean(pred_df)
Project ==
    /\ cpc = "project"
    /\ domains' = build_domains_from_pred_mean(forecast)
    /\ cpc' = "input"
    /\ UNCHANGED <<scores, pl_result, ml_result, main_vars, exec_vars,
                   reload_vars, retry_due, candidate, evaluated,
                   worker_started, train_vars, tool_vars>>

ProjectNext ==
    \/ Project
    \/ Score
    \/ MoveLeaderFind
    \/ PredictLeaderFind

SpecProject == InitProject /\ [][ProjectNext]_vars

\* the place of a node id in sorted order
IdRank(id) == CHOOSE k \in 1..Len(NodeIdOrder) : NodeIdOrder[k] = id

\* the columns' node ids that the identity map resolves and whose means are
\* not both zero
Projected(pred_df) ==
    {n \in DOMAIN pred_df.mean :
        n \in DOMAIN node_id_to_ip /\ pred_df.mean[n] # <<0, 0>>}

\* C36: the Load Projector emits exactly the node ids of the columns whose
\* address resolves and whose mean read and mean write are not both zero,
\* each once, with weight 1, with its address and its column means as
\* loads, in sorted id order.
C36_ProjectorOutput ==
    cpc # "project" =>
        /\ {domains[i].id : i \in 1..Len(domains)} = Projected(forecast)
        /\ Len(domains) = Cardinality(Projected(forecast))
        /\ \A i \in 1..Len(domains) :
              /\ domains[i].nodes = 1
              /\ domains[i].address = node_id_to_ip[domains[i].id]
              /\ domains[i].read_requests = forecast.mean[domains[i].id][1]
              /\ domains[i].write_requests = forecast.mean[domains[i].id][2]
        /\ \A i, j \in 1..Len(domains) :
              i < j => IdRank(domains[i].id) < IdRank(domains[j].id)

C36_Witness ==
    /\ cpc = "input"
    /\ Len(domains) = 3
    /\ forecast.mean["ffffffffffffffff"] # <<0, 0>>
    /\ forecast.mean["6181f76d6668aeb0"] # <<0, 0>>
    /\ forecast.mean["933ca51d2bb602b8"] = <<0, 1>>
    /\ \E n \in TrainedNodes : forecast.mean[n] = <<0, 0>>

\* C35: the identity named in the transfer command for the address of the
\* replica that find_optimal_leader selected is the identity of that replica.
C35_CommandNamesSelectedReplica ==
    (pl_result.called /\ pl_result.leader # NoDomain
        /\ pl_result.leader.address # self_ip) =>
        MoveCommand(self_ip, pl_result.leader.address).target
            = pl_result.leader.id

(***************************************************************************)
(* get_latency called on any two addresses: the three known ones, one the  *)
(* tables lack, and None.                                                  *)
(***************************************************************************)
\* calls of get_latency that are explored
MaxCalls == 2

LatencyArgs == Addresses \cup {NONE}

InitLatency ==
    /\ pc = "latency"
    /\ latency_calls = << >>
    /\ MAX_ITERS = 0
    /\ self_ip = "192.168.0.38"
    /\ it = 0
    /\ rounds = 0
    /\ is_self = TRUE
    /\ optimal_ip = NONE
    /\ will_move = FALSE
    /\ raised = FALSE
    /\ init_failures = 0
    /\ clock = 0
    /\ logger = [buffer |-> << >>,
                 csv |-> [exists |-> FALSE, header |-> FALSE, rows |-> << >>,
                          appends |-> 0]]
    /\ snapshot_exists = TRUE
    /\ scp_calls = << >>
    /\ move_cmds = << >>
    /\ timing_rows = << >>
    /\ ok = 0
    /\ metrics_rows = << >>
    /\ stop_evt = FALSE
    /\ cur_f = 0
    /\ candidate = NONE
    /\ evaluated = "-"
    /\ worker_started = TRUE
    /\ TrainIdle
    /\ forecast = EmptyForecast
    /\ UpdateIdle
    /\ PlanIdle
    /\ ReloadInit
    /\ CostIdle

\* calc.get_latency(from_ip, to_ip)
GetLatency(from_ip, to_ip) ==
    /\ pc = "latency"
    /\ Len(latency_calls) < MaxCalls
    /\ latency_calls' = Append(latency_calls,
                               [from_ip |-> from_ip, to_ip |-> to_ip,
                                returned |-> get_latency(from_ip, to_ip)])
    /\ UNCHANGED <<main_vars, exec_vars, reload_vars, cost_vars, retry_due,
                   candidate, evaluated, worker_started, train_vars,
                   forecast, update_vars, plan_vars>>

LatencyNext == \E from_ip, to_ip \in LatencyArgs : GetLatency(from_ip, to_ip)

SpecLatency == InitLatency /\ [][LatencyNext]_vars

\* C40: two calls with the addresses exchanged return the same value, a
\* call with twice the same known address returns 0, and a call with an
\* address the tables lack returns the sentinel 999.
C40_LatencySymmetricWithSentinel ==
    /\ \A i, j \in 1..Len(latency_calls) :
          (/\ latency_calls[i].from_ip = latency_calls[j].to_ip
           /\ latency_calls[i].to_ip = latency_calls[j].from_ip)
             => latency_calls[i].returned = latency_calls[j].returned
    /\ \A i \in 1..Len(latency_calls) :
          LET c == latency_calls[i]
          IN  /\ (c.from_ip = c.to_ip /\ c.from_ip \in IPS) => c.returned = 0
              /\ (c.from_ip \notin IPS \/ c.to_ip \notin IPS)
                    => c.returned = 999

C40_Witness ==
    /\ Len(latency_calls) = 2
    /\ latency_calls[1].from_ip = "192.168.0.82"
    /\ latency_calls[1].to_ip = "192.168.0.223"
    /\ latency_calls[2].from_ip = "192.168.0.223"
    /\ latency_calls[2].to_ip = "192.168.0.82"
    /\ latency_calls[2].returned = 50

(***************************************************************************)
(* rotate_ycsb.py and recordIP.py: main writes the hotspot plan with the   *)
(* defaults of write_hotspot_plan, then runs one slot after the other,     *)
(* each with the row slot % load_rows of the load matrix.  A row of the    *)
(* matrix is represented by its dominant column, the one that holds        *)
(* major_val >= 0.6 while the two others share the rest.                   *)
(***************************************************************************)
\* largest --load-rows and number of slots that are explored
MaxLoadRows == 4
MaxSlot == 30

\* write_hotspot_plan: the defaults of its parameters
first_ip == "192.168.0.38"
domain_ips == <<"192.168.0.38", "192.168.0.82", "192.168.0.223">>
slot_secs == 10
horizon_minutes == 120

\* list(domain_ips).index(ip)
IndexOf(ips, ip) == (CHOOSE k \in 1..Len(ips) : ips[k] = ip) - 1

\* write_hotspot_plan, lines 40-53: the ip of the row written for slot s,
\* s = 0 .. total_slots - 1; the sequence lists them from slot 0 on
write_hotspot_plan(first, ips, secs, minutes) ==
    LET first_idx == IndexOf(ips, first)
        total_slots == (minutes * 60) \div secs
    IN  [k \in 1..total_slots |-> ips[((first_idx + (k - 1)) % Len(ips)) + 1]]

\* generate_abc_matrix: the dominant column of each of the n_rows rows
generate_abc_matrix(n_rows) == [i \in 0..(n_rows - 1) |-> i % 3]

InitPlan ==
    /\ pc = "plan"
    /\ load_rows \in 1..MaxLoadRows
    /\ rightIP = << >>
    /\ slot = 0
    /\ row = -1
    /\ MAX_ITERS = 0
    /\ self_ip = "192.168.0.38"
    /\ it = 0
    /\ rounds = 0
    /\ is_self = TRUE
    /\ optimal_ip = NONE
    /\ will_move = FALSE
    /\ raised = FALSE
    /\ init_failures = 0
    /\ clock = 0
    /\ logger = [buffer |-> << >>,
                 csv |-> [exists |-> FALSE, header |-> FALSE, rows |-> << >>,
                          appends |-> 0]]
    /\ snapshot_exists = TRUE
    /\ scp_calls = << >>
    /\ move_cmds = << >>
    /\ timing_rows = << >>
    /\ ok = 0
    /\ metrics_rows = << >>
    /\ stop_evt = FALSE
    /\ cur_f = 0
    /\ candidate = NONE
    /\ evaluated = "-"
    /\ worker_started = TRUE
    /\ TrainIdle
    /\ forecast = EmptyForecast
    /\ latency_calls = << >>
    /\ UpdateIdle
    /\ ReloadInit
    /\ CostIdle

\* rotate_ycsb.py main, lines 381-382: write_hotspot_plan(start_time=...)
WritePlan ==
    /\ pc = "plan"
    /\ rightIP' = write_hotspot_plan(first_ip, domain_ips, slot_secs,
                                     horizon_minutes)
    /\ pc' = "slot"
    /\ UNCHANGED <<load_rows, slot, row, loop_vars, stop_evt, exec_vars,
                   reload_vars, cost_vars, retry_due, candidate, evaluated,
                   worker_started, train_vars, forecast, latency_calls,
                   update_vars>>

\* main, lines 390-408: a slot starts with the row slot % load_rows
StartSlot ==
    /\ pc = "slot"
    /\ slot < MaxSlot
    /\ row' = slot % load_rows
    /\ pc' = "running"
    /\ UNCHANGED <<load_rows, rightIP, slot, loop_vars, stop_evt, exec_vars,
                   reload_vars, cost_vars, retry_due, candidate, evaluated,
                   worker_started, train_vars, forecast, latency_calls,
                   update_vars>>

\* main, lines 411-426: the slot ends
EndSlot ==
    /\ pc = "running"
    /\ slot' = slot + 1
    /\ pc' = "slot"
    /\ UNCHANGED <<load_rows, rightIP, row, loop_vars, stop_evt, exec_vars,
                   reload_vars, cost_vars, retry_due, candidate, evaluated,
                   worker_started, train_vars, forecast, latency_calls,
                   update_vars>>

PlanNext ==
    \/ WritePlan
    \/ StartSlot
    \/ EndSlot

SpecPlan == InitPlan /\ [][PlanNext]_vars

\* C39: while a slot of the planned horizon runs, the address that the plan
\* holds for it is the domain of the dominant column of the matrix row in
\* use.
C39_PlanNamesDominantDomain ==
    (pc = "running" /\ slot < Len(rightIP)) =>
        rightIP[slot + 1] = domain_ips[generate_abc_matrix(load_rows)[row] + 1]

(***************************************************************************)
(* update.py: main_loop.  A cycle is one wait of CYCLE_WAIT_SECONDS        *)
(* one-second sleeps followed by one probing window of WINDOW_SECONDS;     *)
(* elapsed is the time of the window used up so far.  _stop is set by the  *)
(* handler of SIGINT and SIGTERM at any time.                              *)
(***************************************************************************)
CYCLE_WAIT_SECONDS == 180
WINDOW_SECONDS == 175
CHECK_INTERVAL == 3
\* the time a failed snapshot_csv takes: none when the source file is
\* missing, else CSV_SNAPSHOT_RETRY attempts of 0.5 s + 0.8 s each
SnapshotTimes == {0, 13}

InitUpdate ==
    /\ upc = "loop"
    /\ _stop = FALSE
    /\ did_update = FALSE
    /\ waited = 0
    /\ elapsed = 0
    /\ probe = FALSE
    /\ snap_path = FALSE
    /\ rc = -1
    /\ trainings = 0
    /\ pc = "idle"
    /\ MAX_ITERS = 0
    /\ self_ip = "192.168.0.82"
    /\ it = 0
    /\ rounds = 0
    /\ is_self = TRUE
    /\ optimal_ip = NONE
    /\ will_move = FALSE
    /\ raised = FALSE
    /\ init_failures = 0
    /\ clock = 0
    /\ logger = [buffer |-> << >>,
                 csv |-> [exists |-> FALSE, header |-> FALSE, rows |-> << >>,
                          appends |-> 0]]
    /\ snapshot_exists = TRUE
    /\ scp_calls = << >>
    /\ move_cmds = << >>
    /\ timing_rows = << >>
    /\ ok = 0
    /\ metrics_rows = << >>
    /\ stop_evt = FALSE
    /\ cur_f = 0
    /\ candidate = NONE
    /\ evaluated = "-"
    /\ worker_started = TRUE
    /\ TrainIdle
    /\ forecast = EmptyForecast
    /\ latency_calls = << >>
    /\ PlanIdle
    /\ ReloadInit
    /\ CostIdle

\* _handle_stop, lines 37-41: SIGINT or SIGTERM arrives
HandleStop ==
    /\ upc # "exit"
    /\ ~_stop
    /\ _stop' = TRUE
    /\ UNCHANGED <<upc, did_update, waited, elapsed, probe, snap_path, rc, trainings,
                   main_vars, exec_vars, reload_vars, cost_vars, retry_due,
                   candidate, evaluated, worker_started, train_vars,
                   forecast, latency_calls, plan_vars>>

\* line 119: while not _stop; a cycle starts or the loop ends (line 163)
LoopTest ==
    /\ upc = "loop"
    /\ IF _stop
       THEN /\ upc' = "exit"
            /\ UNCHANGED <<waited, trainings>>
       ELSE /\ upc' = "wait"
            /\ waited' = 0
            /\ trainings' = 0
    /\ UNCHANGED <<_stop, did_update, elapsed, probe, snap_path, rc,
                   main_vars, exec_vars, reload_vars, cost_vars, retry_due,
                   candidate, evaluated, worker_started, train_vars,
                   forecast, latency_calls, plan_vars>>

\* lines 122-124: one iteration of the wait loop; it returns on _stop
WaitSecond ==
    /\ upc = "wait"
    /\ waited < CYCLE_WAIT_SECONDS
    /\ IF _stop
       THEN /\ upc' = "exit"
            /\ UNCHANGED waited
       ELSE /\ waited' = waited + 1
            /\ UNCHANGED upc
    /\ UNCHANGED <<_stop, did_update, elapsed, probe, snap_path, rc, trainings,
                   main_vars, exec_vars, reload_vars, cost_vars, retry_due,
                   candidate, evaluated, worker_started, train_vars,
                   forecast, latency_calls, plan_vars>>

\* lines 126-127: the wait is over, the probing window opens
EnterWindow ==
    /\ upc = "wait"
    /\ waited = CYCLE_WAIT_SECONDS
    /\ elapsed' = 0
    /\ did_update' = FALSE
    /\ upc' = "window"
    /\ UNCHANGED <<_stop, waited, probe, snap_path, rc, trainings,
                   main_vars, exec_vars, reload_vars, cost_vars, retry_due,
                   candidate, evaluated, worker_started, train_vars,
                   forecast, latency_calls, plan_vars>>

\* lines 129-133: inside the window and not stopped, is_leader() is probed;
\* when it is false the loop sleeps CHECK_INTERVAL and tests again
Probe(leader) ==
    /\ upc = "window"
    /\ elapsed < WINDOW_SECONDS
    /\ ~_stop
    /\ probe' = leader
    /\ IF leader
       THEN /\ upc' = "snapshot"
            /\ UNCHANGED elapsed
       ELSE /\ elapsed' = elapsed + CHECK_INTERVAL
            /\ UNCHANGED upc
    /\ UNCHANGED <<_stop, did_update, waited, snap_path, rc, trainings,
                   main_vars, exec_vars, reload_vars, cost_vars, retry_due,
                   candidate, evaluated, worker_started, train_vars,
                   forecast, latency_calls, plan_vars>>

\* lines 129 and 159-161: the window is over or _stop is set
LeaveWindow ==
    /\ upc = "window"
    /\ elapsed >= WINDOW_SECONDS \/ _stop
    /\ upc' = "loop"
    /\ UNCHANGED <<_stop, did_update, waited, elapsed, probe, snap_path, rc, trainings,
                   main_vars, exec_vars, reload_vars, cost_vars, retry_due,
                   candidate, evaluated, worker_started, train_vars,
                   forecast, latency_calls, plan_vars>>

\* lines 136-142 and snapshot_csv: the snapshot is taken, or it fails after
\* took seconds and the loop sleeps CHECK_INTERVAL before the next probe
Snapshot(succeeded, took) ==
    /\ upc = "snapshot"
    /\ IF succeeded
       THEN /\ snap_path' = TRUE
            /\ upc' = "train"
            /\ UNCHANGED elapsed
       ELSE /\ elapsed' = elapsed + took + CHECK_INTERVAL
            /\ upc' = "window"
            /\ UNCHANGED snap_path
    /\ UNCHANGED <<_stop, did_update, waited, probe, rc, trainings,
                   main_vars, exec_vars, reload_vars, cost_vars, retry_due,
                   candidate, evaluated, worker_started, train_vars,
                   forecast, latency_calls, plan_vars>>

\* line 145 and run_training: the training process runs and exits with code
\* (1 also when subprocess.run raised)
RunTraining(code) ==
    /\ upc = "train"
    /\ rc' = code
    /\ trainings' = trainings + 1
    /\ upc' = "unlink"
    /\ UNCHANGED <<_stop, did_update, waited, elapsed, probe, snap_path,
                   main_vars, exec_vars, reload_vars, cost_vars, retry_due,
                   candidate, evaluated, worker_started, train_vars,
                   forecast, latency_calls, plan_vars>>

\* Unlink that keeps the snapshot of a failed training
Unlink_OnlyOnSuccess ==
    /\ upc = "unlink"
    /\ snap_path' = (rc # 0)
    /\ did_update' = TRUE
    /\ upc' = "loop"
    /\ UNCHANGED <<_stop, waited, elapsed, probe, rc, trainings,
                   main_vars, exec_vars, reload_vars, cost_vars, retry_due,
                   candidate, evaluated, worker_started, train_vars,
                   forecast, latency_calls, plan_vars>>

\* lines 146-157: the snapshot is unlinked (the file was made by this
\* process a moment ago), updated is set and the window is left by break
Unlink ==
    /\ upc = "unlink"
    /\ snap_path' = FALSE
    /\ did_update' = TRUE
    /\ upc' = "loop"
    /\ UNCHANGED <<_stop, waited, elapsed, probe, rc, trainings,
                   main_vars, exec_vars, reload_vars, cost_vars, retry_due,
                   candidate, evaluated, worker_started, train_vars,
                   forecast, latency_calls, plan_vars>>

\* the steps of main_loop itself
UpdateStep ==
    \/ LoopTest
    \/ WaitSecond
    \/ EnterWindow
    \/ \E leader \in BOOLEAN : Probe(leader)
    \/ LeaveWindow
    \/ \E succeeded \in BOOLEAN, took \in SnapshotTimes :
          Snapshot(succeeded, took)
    \/ \E code \in {0, 1} : RunTraining(code)
    \/ Unlink

UpdateNext ==
    \/ HandleStop
    \/ UpdateStep

SpecUpdate == InitUpdate /\ [][UpdateNext]_vars

\* main_loop keeps running: every call it makes returns
FairSpecUpdate == SpecUpdate /\ WF_vars(UpdateStep)

\* what holds of the trainings of a cycle and of the snapshot file
TrainingGuarded ==
    /\ trainings <= 1
    /\ upc \in {"train", "unlink"} => probe /\ snap_path
    /\ snap_path => upc \in {"train", "unlink"}
    /\ upc = "snapshot" => probe

Hot(n) ==
    [empty |-> FALSE,
     mean |-> [m \in PredNodes |-> IF m = n THEN <<MaxLoad, 0>> ELSE <<0, 0>>]]

\* the forecasts of the ticks: the load at the local replica, the load at
\* another one
StopForecasts == {Hot("933ca51d2bb602b8"), Hot("b92b49a4de72942d")}

InitStop ==
    /\ pc = "tick"
    /\ self_ip = "192.168.0.38"
    /\ MAX_ITERS = 1
    /\ it = 0
    /\ rounds = 0
    /\ is_self = TRUE
    /\ optimal_ip = NONE
    /\ will_move = FALSE
    /\ raised = FALSE
    /\ init_failures = 0
    /\ clock = 0
    /\ logger = [buffer |-> << >>,
                 csv |-> [exists |-> FALSE, header |-> FALSE, rows |-> << >>,
                          appends |-> 0]]
    /\ snapshot_exists = TRUE
    /\ scp_calls = << >>
    /\ move_cmds = << >>
    /\ timing_rows = << >>
    /\ ok = 0
    /\ metrics_rows = << >>
    /\ stop_evt = FALSE
    /\ cur_f = 0
    /\ candidate = NONE
    /\ evaluated = "-"
    /\ worker_started = TRUE
    /\ TrainIdle
    /\ ToolsIdle
    /\ CostIdle
    /\ forecasters = <<[status |-> "ok", built_from |-> 0, observed |-> 0]>>
    /\ holder_f = 1
    /\ lock = "free"
    /\ now = 1
    /\ \/ sig = 0 /\ sig_changes = 0 /\ scenario = "none"
       \/ sig = 1 /\ sig_changes = 1 /\ scenario = "changed"
    /\ last_sig = 0
    /\ last_seen_change_ts = 0
    /\ wpc = "wait"
    /\ wait_start = 1
    /\ fnew = 0
    /\ triggers = 0
    /\ reloads = 0
    /\ ctor_failed = FALSE
    /\ first_poll_ts = 0
    /\ last_poll_ts = 0
    /\ retry_due = FALSE

\* the steps of ReloadWorker.run past the poll, and the return of its wait
\* when stop_evt is set
WorkerStep ==
    \/ \E ctor_ok \in BOOLEAN : CtorDone(ctor_ok)
    \/ SetAcquire
    \/ SetAssign
    \/ MarkLoaded
    \/ WorkerStop

StopNext ==
    \/ \E pred_df \in StopForecasts : Tick("none", pred_df)
    \/ Keep
    \/ \E copied \in BOOLEAN : ScpToHost(copied)
    \/ \E status \in MoveOutcomes : MoveLeader(status)
    \/ RemoveLocal
    \/ \E written \in BOOLEAN : AppendMetrics(written)
    \/ Unwind
    \/ AdvanceTime
    \/ Poll
    \/ WorkerStep

SpecStop == InitStop /\ [][StopNext]_vars

\* the worker thread runs: a call it has made returns, and so does its wait
\* once stop_evt is set
FairSpecStop == SpecStop /\ WF_vars(WorkerStep)

\* main has left its loop only with the stop requested, and once it is
\* requested the worker always has a step to take that waits neither for
\* the clock nor for the lock, until its thread has ended
StopRequestedAndServed ==
    /\ terminated => stop_evt
    /\ (stop_evt /\ wpc # "stopped") => ENABLED WorkerStep

\* with the stop requested a waiting worker polls no more: it neither
\* restarts its wait nor touches the guard nor starts a construction, and
\* a thread that has ended stays so
NoPollOnceStopped ==
    /\ (stop_evt /\ wpc = "wait") =>
          /\ wpc' \in {"wait", "stopped"}
          /\ wait_start' = wait_start
          /\ last_seen_change_ts' = last_seen_change_ts
          /\ triggers' = triggers
    /\ wpc = "stopped" => wpc' = "stopped"
    /\ stop_evt => stop_evt'

\* C37: every way out of main (the cap, a completed migration, an exception
\* of the executor) requests the stop; after the request the worker starts
\* no poll, finishes at most the reload it is in without waiting for an
\* interval, and its thread ends.
C37_StopRequestedAndObeyed ==
    /\ []StopRequestedAndServed
    /\ [][NoPollOnceStopped]_vars
    /\ stop_evt ~> (wpc = "stopped")

C37_Witness ==
    /\ pc = "crashed"
    /\ stop_evt
    /\ wpc = "set_locked"
    /\ triggers = 1
====
